---- MODULE Spec2Model ----
(***************************************************************************)
(* A model of the redis server of this repository: the connection pipeline *)
(* of src/main.rs (reader task, executor task, replica gate, reply rule),  *)
(* the runtime of src/redis_runtime.rs (store, replica set, fanout) and    *)
(* the replica's handshake and retry loop.                                 *)
(***************************************************************************)
EXTENDS Integers, Sequences, FiniteSets, TLC

VARIABLES
    role,          \* RedisRuntime.replication_role: "master" or "slave"
    values,        \* RedisRuntime.values: key -> ValueWithExpiry or NoEntry
    now,           \* Instant::now(), in ticks
    replicas,      \* ReplicationRole::Master.replicas: Vec<Replica>
    replicasLock,  \* holder of the Mutex around the Vec<Replica>, or NoConn
    conn,          \* per connection: "none", or "open" once handle_connection ran
    from_master,   \* per connection: the from_master flag of handle_connection
    peer,          \* per connection: "open", or "closed" once the remote end is gone
    reader,        \* per connection: state of the handle_reading task
    nread,         \* per connection: inputs read so far by handle_reading
    queue,         \* per connection: the mpsc channel of CommandOrError
    exec,          \* per connection: state of the handle_processing_writing task
    wire,          \* per connection: frames written to its write-half, in order
    config_port,   \* ServerConfig.port
    hs,            \* where set_up_replica_loop and perform_handshake stand
    hsSent,        \* frames the current handshake attempt has sent to the primary
    hsRecv,        \* what the current handshake attempt has received, in order
    backoff,       \* the local backoff of set_up_replica_loop, in seconds
    waits,         \* the sleeps of the loop since startup or the last success
    attempts,      \* calls of perform_handshake so far
    replication_id,\* RedisRuntime.replication_id
    written,       \* frames serialized into the byte source of a reader, in order
    stream,        \* bytes the BufReader has not consumed yet
    parsed,        \* results of the calls of RedisType::parse on the reader, in order
    request,       \* the frame given to RedisCommand::parse
    dispatched,    \* what RedisCommand::parse returned for it, once it has
    replica_sent,  \* a replica of this server: commands of its handshake sent so far
    replica_ready, \* that replica: its handshake is done, the link is in a pipeline
    replica_read,  \* that replica: frames of its link to this server it has taken
    replica_values,\* that replica: its store
    replica_replies,\* that replica: its replies to a client of its own, in order
    replica_taken, \* that replica: the frames it has parsed off its link, in order
    linkLock,      \* per connection: holder of the Mutex around its write-half, or NoConn
    sent           \* per connection: the parts of frames written to its socket, in order

pipeline == <<values, now, replicas, replicasLock, conn, from_master, peer,
              reader, nread, queue, exec, wire>>

handshake == <<config_port, hs, hsSent, hsRecv, backoff, waits, attempts>>

codec == <<written, stream, parsed>>

dispatch == <<request, dispatched>>

downstream == <<replica_sent, replica_ready, replica_read, replica_values,
                replica_replies, replica_taken>>

links == <<linkLock, sent>>

vars == <<role, replication_id, pipeline, handshake, codec, dispatch, downstream, links>>

-----------------------------------------------------------------------------
(* Bounds of the model *)

\* inputs read over all connections
MaxInputs == 3

\* ticks of the clock
MaxTime == 2

\* nesting depth of the lists given to the codec
MaxDepth == 2

\* calls of perform_handshake
MaxAttempts == 8

\* capacity of the mpsc channel between reader and executor
ChannelCapacity == 32

\* Duration::from_secs(1), the backoff set_up_replica_loop starts from and resets to
InitialBackoff == 1

\* Duration::from_secs(30), the cap of the backoff
BackoffCap == 30

\* ServerConfig::default().port
DefaultPort == 6379

\* The connections: two inbound ones, and on a replica the link to its primary
Conns == {"c1", "c2", "p"}
PrimaryLink == "p"
NoConn == "-"

Keys == {"k1"}
Ports == {6379, 6380}

-----------------------------------------------------------------------------
(* RedisType: the frames *)

SimpleString(s) == [type |-> "SimpleString", data |-> s]

BulkString(s) == [type |-> "BulkString", data |-> s]

NullBulkString == [type |-> "NullBulkString"]

SimpleError(m) == [type |-> "SimpleError", message |-> m]

List(elems) == [type |-> "List", elems |-> elems]

\* RedisType::RDBFile: the snapshot blob
RDBFile(file) == [type |-> "RDBFile", file |-> file]

\* RedisType::multiple: frames that are written one after the other
Multiple(frames) == [type |-> "Multiple", frames |-> frames]

\* Texts that the program computes on are sequences of characters
Uppers == <<"A", "B", "C", "D", "E", "F", "G", "H", "I", "J", "K", "L", "M",
            "N", "O", "P", "Q", "R", "S", "T", "U", "V", "W", "X", "Y", "Z">>

Lowers == <<"a", "b", "c", "d", "e", "f", "g", "h", "i", "j", "k", "l", "m",
            "n", "o", "p", "q", "r", "s", "t", "u", "v", "w", "x", "y", "z">>

LowerChar(ch) ==
    IF \E i \in DOMAIN Uppers : Uppers[i] = ch
    THEN Lowers[CHOOSE i \in DOMAIN Uppers : Uppers[i] = ch]
    ELSE ch

\* Mutant of to_lowercase: the text is kept as it was sent
KeepCase(s) == s

\* str::to_lowercase
to_lowercase(s) == [i \in DOMAIN s |-> LowerChar(s[i])]

Digits == <<"0", "1", "2", "3", "4", "5", "6", "7", "8", "9">>

\* format!("{}", n) of an unsigned number
RECURSIVE NatChars(_)
NatChars(n) ==
    IF n < 10 THEN <<Digits[n + 1]>>
    ELSE NatChars(n \div 10) \o <<Digits[(n % 10) + 1]>>

\* format!("{}", n) and to_string of a signed number
IntChars(n) == IF n < 0 THEN <<"-">> \o NatChars(0 - n) ELSE NatChars(n)


-----------------------------------------------------------------------------
(* RedisCommand *)

\* Option<Duration>: None is the empty set, Some(t) is {t}
NoTtl == {}

Ttl(t) == {t}

PING == [name |-> "PING"]

ECHO(value) == [name |-> "ECHO", value |-> value]

SET(k, v, ttl) == [name |-> "SET", key |-> k, val |-> v, ttl |-> ttl]

GET(k) == [name |-> "GET", key |-> k]

INFO(arg) == [name |-> "INFO", arg |-> arg]

REPLCONF_Port(p) == [name |-> "REPLCONF", arg |-> "Port", port |-> p]

REPLCONF_Capabilities == [name |-> "REPLCONF", arg |-> "Capabilities", port |-> 0]

PSYNC(id, offset) == [name |-> "PSYNC", master_id |-> id, master_offset |-> offset]

\* RedisCommand::default_capabilities
default_capabilities == REPLCONF_Capabilities

\* RedisCommand::psync_from_scrath
psync_from_scrath == PSYNC(<<"?">>, -1)

NoCommand == [name |-> "-"]

\* RedisCommand::is_write_command
is_write_command(command) == command.name = "SET"

\* The names and words RedisCommand::write_as_protocol writes
PING_text == <<"P", "I", "N", "G">>
ECHO_text == <<"E", "C", "H", "O">>
SET_text == <<"S", "E", "T">>
GET_text == <<"G", "E", "T">>
INFO_text == <<"I", "N", "F", "O">>
REPLCONF_text == <<"R", "E", "P", "L", "C", "O", "N", "F">>
PSYNC_text == <<"P", "S", "Y", "N", "C">>
px_text == <<"p", "x">>
listening_port_text ==
    <<"l", "i", "s", "t", "e", "n", "i", "n", "g", "-", "p", "o", "r", "t">>
capa_text == <<"c", "a", "p", "a">>
psync2_text == <<"p", "s", "y", "n", "c", "2">>

\* RedisCommand::write_as_protocol, as the frame that is serialized
CommandFrame(command) ==
    CASE command.name = "PING" -> List(<<BulkString(PING_text)>>)
      [] command.name = "ECHO" -> List(<<BulkString(ECHO_text), BulkString(command.value)>>)
      [] command.name = "SET" ->
            List(<<BulkString(SET_text), BulkString(command.key), command.val>>
                 \o (IF command.ttl = NoTtl THEN <<>>
                     ELSE <<BulkString(px_text),
                            BulkString(NatChars(CHOOSE t \in command.ttl : TRUE))>>))
      [] command.name = "GET" -> List(<<BulkString(GET_text), BulkString(command.key)>>)
      [] command.name = "INFO" -> List(<<BulkString(INFO_text), BulkString(command.arg)>>)
      [] command.name = "REPLCONF" ->
            IF command.arg = "Port"
            THEN List(<<BulkString(REPLCONF_text), BulkString(listening_port_text),
                        BulkString(NatChars(command.port))>>)
            ELSE List(<<BulkString(REPLCONF_text), BulkString(capa_text),
                        BulkString(psync2_text)>>)
      [] command.name = "PSYNC" ->
            List(<<BulkString(PSYNC_text), BulkString(command.master_id),
                   BulkString(IntChars(command.master_offset))>>)

-----------------------------------------------------------------------------
(* The store and the replica set of RedisRuntime *)

\* Option<Instant>: None is the empty set, Some(t) is {t}
NoExpiry == {}

\* A key the HashMap does not hold
NoEntry == [present |-> FALSE, value |-> NullBulkString, expiry |-> NoExpiry]

ValueWithExpiry(v, e) == [present |-> TRUE, value |-> v, expiry |-> e]

\* Replica::new
Replica(connection, addr) == [connection |-> connection, addr |-> addr]

\* RedisRuntime::is_master
is_master == role = "master"

\* The expiry test of the GET arm: Instant::now() > expiry
Expired(entry) == \E expiry \in entry.expiry : now > expiry

\* ReplicationRole::type_str
type_str ==
    IF is_master THEN <<"m", "a", "s", "t", "e", "r">> ELSE <<"s", "l", "a", "v", "e">>

\* RedisRuntime.replication_offset, set by RedisRuntime::new and never written
replication_offset == 0

replication_text == <<"r", "e", "p", "l", "i", "c", "a", "t", "i", "o", "n">>

\* The INFO arm for the section replication: three lines separated by LF
InfoReplication ==
    BulkString(<<"r", "o", "l", "e", ":">> \o type_str \o <<"\n">>
               \o <<"m", "a", "s", "t", "e", "r", "_", "r", "e", "p", "l", "i", "d", ":">>
               \o replication_id \o <<"\n">>
               \o <<"m", "a", "s", "t", "e", "r", "_", "r", "e", "p", "l", "_",
                    "o", "f", "f", "s", "e", "t", ":">>
               \o NatChars(replication_offset))

UnknownInfoPrefix ==
    <<"U", "n", "k", "n", "o", "w", "n", " ", "a", "r", "g", " ", "f", "o", "r", " ",
      "I", "N", "F", "O", ":", " ">>

\* The INFO arm: the match is on arg.to_lowercase(), and the arm of an unknown
\* section binds the lower-cased text
ExecuteInfo(arg) ==
    LET section == to_lowercase(arg)
    IN IF section = replication_text
       THEN InfoReplication
       ELSE SimpleError(UnknownInfoPrefix \o section)

\* rdb_file::get_empty_rdb_decoded, shortened to its first nine bytes
EMPTY_RDB == <<"R", "E", "D", "I", "S", "0", "0", "1", "1">>

\* format!("FULLRESYNC {} 0", self.replication_id)
FullresyncLine(id) ==
    <<"F", "U", "L", "L", "R", "E", "S", "Y", "N", "C", " ">> \o id \o <<" ", "0">>

\* Mutant of the PSYNC arm: the offset is not looked at
PsyncAnyOffset(command) == command.master_id = <<"?">>

\* The test of the PSYNC arm: master_id == "?" && *master_offset == -1
PsyncFromScratch(command) == command.master_id = <<"?">> /\ command.master_offset = -1

\* The PSYNC arm
ExecutePsync(command) ==
    IF PsyncFromScratch(command)
    THEN Multiple(<<SimpleString(FullresyncLine(replication_id)), RDBFile(EMPTY_RDB)>>)
    ELSE SimpleError("Not capable of syncing with those options")

\* The frame RedisRuntime::execute returns for a command, read in the current state
ExecuteResult(command) ==
    CASE command.name = "PING" -> SimpleString("PONG")
      [] command.name = "ECHO" -> BulkString(command.value)
      [] command.name = "SET" -> SimpleString("OK")
      [] command.name = "GET" ->
            IF ~values[command.key].present \/ Expired(values[command.key])
            THEN NullBulkString
            ELSE values[command.key].value
      [] command.name = "INFO" -> ExecuteInfo(command.arg)
      [] command.name = "PSYNC" -> ExecutePsync(command)
      [] command.name = "REPLCONF" ->
            IF command.arg = "Port" /\ ~is_master
            THEN SimpleError("You can't sync with a replica")
            ELSE SimpleString("OK")

\* Mutant of the SET arm: the map is replaced by one that holds the new entry alone
ExecuteValuesAlone(command) ==
    IF command.name = "SET"
    THEN [k \in DOMAIN values |->
            IF k = command.key
            THEN ValueWithExpiry(command.val, {now + ttl : ttl \in command.ttl})
            ELSE NoEntry]
    ELSE values

\* The store after RedisRuntime::execute of a command (the expired entry of a GET is
\* removed by a second step, RemoveExpired)
ExecuteValues(command) ==
    IF command.name = "SET"
    THEN [values EXCEPT ![command.key] =
            ValueWithExpiry(command.val, {now + ttl : ttl \in command.ttl})]
    ELSE values

\* stream.peer_addr().ip(): the listener is bound to localhost, the link of a
\* replica goes to the address given by --replicaof
peer_ip(c) == IF c = "p" THEN "replicaof" ELSE "127.0.0.1"

SocketAddr(ip, port) == [ip |-> ip, port |-> port]

\* Mutant of the REPLCONF arm: the role is not looked at
ExecuteReplicasAnyRole(c, command) ==
    IF command.name = "REPLCONF" /\ command.arg = "Port" /\ c # NoConn
    THEN Append(replicas, Replica(c, SocketAddr(peer_ip(c), command.port)))
    ELSE replicas

\* Mutant of the REPLCONF arm: no link is registered
ExecuteReplicasNone(c, command) == replicas

\* The replica set after RedisRuntime::execute of a command with the connection
\* context of c (NoConn: execute_no_conn, connection is None)
ExecuteReplicas(c, command) ==
    IF command.name = "REPLCONF" /\ command.arg = "Port" /\ is_master /\ c # NoConn
    THEN Append(replicas, Replica(c, SocketAddr(peer_ip(c), command.port)))
    ELSE replicas

-----------------------------------------------------------------------------
(* The connection pipeline of main.rs *)

\* CommandOrError, tagged with the position n of the input on its connection
Command(command, n) == [kind |-> "Command", command |-> command, error |-> "", n |-> n]

Error(error, n) == [kind |-> "Error", command |-> NoCommand, error |-> error, n |-> n]

\* What handle_reading can make of one input
SpecCommands ==
    {GET("k1"), REPLCONF_Port(6380),
     SET("k1", BulkString("v1"), NoTtl), SET("k1", BulkString("v2"), NoTtl)}

SpecInputs(n) ==
    {Command(command, n) : command \in SpecCommands}
        \cup {Error("Not a valid command", n), Error("Error parsing input type", n)}

\* A frame written on a connection: a reply to input n, or a replicated command
ReplyEntry(n, frame) == [kind |-> "reply", n |-> n, frame |-> frame]

ReplicatedEntry(frame) == [kind |-> "replicated", n |-> 0, frame |-> frame]

\* The executor between two items of its queue
Idle == [pc |-> "recv", cur |-> NoCommand, n |-> 0, result |-> NullBulkString,
         idx |-> 0]

\* write_all on the write-half of c: it succeeds while the remote end is there
WriteOutcomes(c) == IF peer[c] = "open" THEN {TRUE} ELSE {TRUE, FALSE}

TotalRead == nread["c1"] + nread["c2"] + nread["p"]

\* generate_alphanumeric_string(40): the replication ids a server may draw at
\* startup, shortened
ReplicationIds == {<<"i", "d", "A">>, <<"i", "d", "B">>}

\* The id of the runs in which no command reads it
FirstId == <<"i", "d", "A">>

\* main before the listener has accepted a connection
InitConnections ==
    /\ now = 0
    /\ replicas = <<>>
    /\ replicasLock = NoConn
    /\ conn = [c \in Conns |-> "none"]
    /\ from_master = [c \in Conns |-> FALSE]
    /\ peer = [c \in Conns |-> "open"]
    /\ reader = [c \in Conns |-> "none"]
    /\ nread = [c \in Conns |-> 0]
    /\ queue = [c \in Conns |-> <<>>]
    /\ exec = [c \in Conns |-> Idle]
    /\ wire = [c \in Conns |-> <<>>]

\* No frame is given to RedisCommand::parse outside a reader
InitDispatch ==
    /\ request = NullBulkString
    /\ dispatched = <<>>

\* No replica of this server is followed
InitDownstream ==
    /\ replica_sent = 0
    /\ replica_ready = FALSE
    /\ replica_read = 0
    /\ replica_values = [k \in Keys |-> NoEntry]
    /\ replica_replies = <<>>
    /\ replica_taken = <<>>

\* No write-half is locked and nothing is written
InitLinks ==
    /\ linkLock = [c \in Conns |-> NoConn]
    /\ sent = [c \in Conns |-> <<>>]

\* RedisRuntime::new and the state of main before any connection; no reader is
\* fed from serialized frames
InitPipeline ==
    /\ values = [k \in Keys |-> NoEntry]
    /\ InitConnections
    /\ written = <<>>
    /\ stream = <<>>
    /\ parsed = <<>>
    /\ InitDispatch
    /\ InitDownstream
    /\ InitLinks

\* set_up_replica_loop before its first turn
InitReplicaLoop ==
    /\ hs = "start"
    /\ hsSent = <<>>
    /\ hsRecv = <<>>
    /\ backoff = InitialBackoff
    /\ waits = <<>>
    /\ attempts = 0

Init ==
    /\ role \in {"master", "slave"}
    /\ config_port = DefaultPort
    /\ replication_id = FirstId
    /\ InitPipeline
    /\ InitReplicaLoop

\* handle_connection: the two tasks of a connection are spawned
handle_connection(c, fm) ==
    /\ conn[c] = "none"
    /\ conn' = [conn EXCEPT ![c] = "open"]
    /\ from_master' = [from_master EXCEPT ![c] = fm]
    /\ reader' = [reader EXCEPT ![c] = "run"]
    /\ UNCHANGED <<handshake, codec, dispatch, downstream, links, replication_id, role, values, now, replicas, replicasLock, peer, nread, queue,
                   exec, wire>>

\* The inbound connections: a primary is modelled with two of them, a replica
\* with one next to the link to its primary
Inbound == IF is_master THEN {"c1", "c2"} ELSE {"c1"}

\* main: the listener accepts an inbound connection
Accept(c) ==
    /\ c \in Inbound
    /\ c = "c1" \/ conn["c1"] = "open"
    /\ handle_connection(c, FALSE)

\* set_up_replica_loop: the handshake succeeded, the stream to the primary is
\* handed to the pipeline
ReplicaReady ==
    /\ ~is_master
    /\ handle_connection(PrimaryLink, TRUE)

\* The remote end of a connection goes away
PeerClose(c) ==
    /\ conn[c] = "open"
    /\ peer[c] = "open"
    /\ peer' = [peer EXCEPT ![c] = "closed"]
    /\ UNCHANGED <<handshake, codec, dispatch, downstream, links, replication_id, role, values, now, replicas, replicasLock, conn, from_master,
                   reader, nread, queue, exec, wire>>

\* handle_reading: one turn of the loop with an input drawn from inputs; tx.send
\* fails and the unwrap panics once the executor has dropped the receiver
ReadInput(c, inputs) ==
    /\ reader[c] = "run"
    /\ peer[c] = "open"
    /\ TotalRead < MaxInputs
    /\ Len(queue[c]) < ChannelCapacity
    /\ \E input \in inputs :
         /\ nread' = [nread EXCEPT ![c] = @ + 1]
         /\ IF exec[c].pc = "done"
            THEN /\ reader' = [reader EXCEPT ![c] = "panicked"]
                 /\ queue' = queue
            ELSE /\ reader' = reader
                 /\ queue' = [queue EXCEPT ![c] = Append(@, input)]
    /\ UNCHANGED <<handshake, codec, dispatch, downstream, links, replication_id, role, values, now, replicas, replicasLock, conn, from_master,
                   peer, exec, wire>>

Read(c) == ReadInput(c, SpecInputs(nread[c] + 1))

\* handle_reading: parse returns Ok(None) at end-of-stream, the loop ends and the
\* sender is dropped
ReadEof(c) ==
    /\ reader[c] = "run"
    /\ peer[c] = "closed"
    /\ reader' = [reader EXCEPT ![c] = "done"]
    /\ UNCHANGED <<handshake, codec, dispatch, downstream, links, replication_id, role, values, now, replicas, replicasLock, conn, from_master,
                   peer, nread, queue, exec, wire>>

\* Mutant of the gating rule: the negation of is_master is lost
GateNegationLost(c, command) ==
    is_master /\ is_write_command(command) /\ ~from_master[c]

\* Mutant of the gating rule: the connection from the primary is gated too
GateIgnoresPrimary(c, command) ==
    ~is_master /\ is_write_command(command)

\* The gating rule of handle_processing_writing: a write on a replica that does
\* not come from the primary is refused
GateRejects(c, command) ==
    ~is_master /\ is_write_command(command) /\ ~from_master[c]

\* Mutant of the reply rule: every executed command is answered
ReplyAlways(command) == TRUE

\* The reply rule of handle_processing_writing
ShouldReply(command) == is_master \/ ~is_write_command(command)

\* Mutant of the receive: the newest item is taken
NewestItem(c) == queue[c][Len(queue[c])]

\* The item the executor takes next: rx.recv() yields the oldest item
NextItem(c) == Head(queue[c])

\* handle_processing_writing returns with the error of a failed write_all; the
\* receiver is dropped
Failed(e) == [Idle EXCEPT !.pc = "done"]

\* The executor's state after write_all of a frame on its own connection
AfterWrite(c, ok, next) ==
    /\ wire' = IF ok THEN [wire EXCEPT ![c] = Append(@, next.entry)] ELSE wire
    /\ exec' = [exec EXCEPT ![c] = IF ok THEN next.exec ELSE Failed(next.exec)]

\* handle_processing_writing: an item CommandOrError::Error is answered with a
\* SimpleError of its message
ErrorReply(c) ==
    /\ exec[c].pc = "recv"
    /\ queue[c] # <<>>
    /\ NextItem(c).kind = "Error"
    /\ queue' = [queue EXCEPT ![c] = Tail(@)]
    /\ \E ok \in WriteOutcomes(c) :
         AfterWrite(c, ok,
            [entry |-> ReplyEntry(NextItem(c).n, SimpleError(NextItem(c).error)),
             exec |-> Idle])
    /\ UNCHANGED <<handshake, codec, dispatch, downstream, links, replication_id, role, values, now, replicas, replicasLock, conn, from_master,
                   peer, reader, nread>>

\* handle_processing_writing: a command the gating rule refuses is answered with
\* the read-only error and the loop continues
GateReply(c) ==
    /\ exec[c].pc = "recv"
    /\ queue[c] # <<>>
    /\ NextItem(c).kind = "Command"
    /\ GateRejects(c, NextItem(c).command)
    /\ queue' = [queue EXCEPT ![c] = Tail(@)]
    /\ \E ok \in WriteOutcomes(c) :
         AfterWrite(c, ok,
            [entry |-> ReplyEntry(NextItem(c).n,
                          SimpleError("You can't write against a read only replica.")),
             exec |-> Idle])
    /\ UNCHANGED <<handshake, codec, dispatch, downstream, links, replication_id, role, values, now, replicas, replicasLock, conn, from_master,
                   peer, reader, nread>>

\* handle_processing_writing: a command that passes the gate is executed by
\* RedisRuntime::execute; REPLCONF listening-port on a primary waits for the mutex
\* of the replica set, a GET that finds its key expired drops the read guard first
Execute(c) ==
    /\ exec[c].pc = "recv"
    /\ queue[c] # <<>>
    /\ NextItem(c).kind = "Command"
    /\ ~GateRejects(c, NextItem(c).command)
    /\ LET command == NextItem(c).command
           expired == command.name = "GET" /\ Expired(values[command.key])
       IN /\ (command.name = "REPLCONF" /\ command.arg = "Port" /\ is_master) =>
                replicasLock = NoConn
          /\ values' = ExecuteValues(command)
          /\ replicas' = ExecuteReplicas(c, command)
          /\ exec' = [exec EXCEPT ![c] =
                        [Idle EXCEPT !.pc = IF expired THEN "expired" ELSE "reply",
                                     !.cur = command,
                                     !.n = NextItem(c).n,
                                     !.result = ExecuteResult(command)]]
    /\ queue' = [queue EXCEPT ![c] = Tail(@)]
    /\ UNCHANGED <<handshake, codec, dispatch, downstream, links, replication_id, role, now, replicasLock, conn, from_master, peer, reader, nread,
                   wire>>

\* RedisRuntime::execute, GET arm: the expired entry is removed under the write lock
RemoveExpired(c) ==
    /\ exec[c].pc = "expired"
    /\ values' = [values EXCEPT ![exec[c].cur.key] = NoEntry]
    /\ exec' = [exec EXCEPT ![c].pc = "reply", ![c].result = NullBulkString]
    /\ UNCHANGED <<handshake, codec, dispatch, downstream, links, replication_id, role, now, replicas, replicasLock, conn, from_master, peer,
                   reader, nread, queue, wire>>

\* The executor after the reply rule: replicate_command returns at once for a
\* command that is no write and does nothing on a replica, and the loop takes
\* the next item
AfterReply(e) ==
    IF is_write_command(e.cur) /\ is_master THEN [e EXCEPT !.pc = "replicate"] ELSE Idle

\* handle_processing_writing: the reply rule; a failed write_all ends the task
Reply(c) ==
    /\ exec[c].pc = "reply"
    /\ IF ShouldReply(exec[c].cur)
       THEN \E ok \in WriteOutcomes(c) :
              AfterWrite(c, ok,
                 [entry |-> ReplyEntry(exec[c].n, exec[c].result),
                  exec |-> AfterReply(exec[c])])
       ELSE /\ wire' = wire
            /\ exec' = [exec EXCEPT ![c] = AfterReply(exec[c])]
    /\ UNCHANGED <<handshake, codec, dispatch, downstream, links, replication_id, role, values, now, replicas, replicasLock, conn, from_master,
                   peer, reader, nread, queue>>

\* RedisRuntime::replicate_command: the mutex of the replica set is taken for the
\* whole loop over the links
ReplicateLock(c) ==
    /\ exec[c].pc = "replicate"
    /\ replicasLock = NoConn
    /\ IF replicas = <<>>
       THEN /\ exec' = [exec EXCEPT ![c] = Idle]
            /\ replicasLock' = replicasLock
       ELSE /\ exec' = [exec EXCEPT ![c].pc = "replicating", ![c].idx = 1]
            /\ replicasLock' = c
    /\ UNCHANGED <<handshake, codec, dispatch, downstream, links, replication_id, role, values, now, replicas, conn, from_master, peer, reader,
                   nread, queue, wire>>

\* RedisRuntime::replicate_command: one turn of the loop, the command is written
\* to the link's connection and a failure is printed; after the last link the
\* guard of the replica set is dropped
ReplicateWrite(c) ==
    /\ exec[c].pc = "replicating"
    /\ LET i == exec[c].idx
           link == replicas[i].connection
       IN \E ok \in WriteOutcomes(link) :
            /\ wire' = IF ok
                       THEN [wire EXCEPT ![link] =
                               Append(@, ReplicatedEntry(CommandFrame(exec[c].cur)))]
                       ELSE wire
            /\ replicas' = replicas
            /\ IF i < Len(replicas)
               THEN /\ exec' = [exec EXCEPT ![c].idx = i + 1]
                    /\ replicasLock' = replicasLock
               ELSE /\ exec' = [exec EXCEPT ![c] = Idle]
                    /\ replicasLock' = NoConn
    /\ UNCHANGED <<handshake, codec, dispatch, downstream, links, replication_id, role, values, now, conn, from_master, peer, reader, nread, queue>>

\* handle_processing_writing: rx.recv() returns None once the reader has dropped
\* the sender and the queue is empty
ExecutorExit(c) ==
    /\ exec[c].pc = "recv"
    /\ conn[c] = "open"
    /\ queue[c] = <<>>
    /\ reader[c] \in {"done", "panicked"}
    /\ exec' = [exec EXCEPT ![c].pc = "done"]
    /\ UNCHANGED <<handshake, codec, dispatch, downstream, links, replication_id, role, values, now, replicas, replicasLock, conn, from_master,
                   peer, reader, nread, queue, wire>>

Next ==
    \/ \E c \in Conns : Accept(c)
    \/ ReplicaReady
    \/ \E c \in Conns : PeerClose(c)
    \/ \E c \in Conns : Read(c)
    \/ \E c \in Conns : ReadEof(c)
    \/ \E c \in Conns : ErrorReply(c)
    \/ \E c \in Conns : GateReply(c)
    \/ \E c \in Conns : Execute(c)
    \/ \E c \in Conns : Reply(c)
    \/ \E c \in Conns : ReplicateLock(c)
    \/ \E c \in Conns : ReplicateWrite(c)
    \/ \E c \in Conns : ExecutorExit(c)

Spec == Init /\ [][Next]_vars

-----------------------------------------------------------------------------
(* The replica side: perform_handshake and set_up_replica_loop.  The text of a  *)
(* reply is a sequence of characters, so that its comparison is computed.       *)

IsWhitespace(ch) == ch \in {" ", "\t"}

RECURSIVE SplitFrom(_, _, _)
SplitFrom(s, i, word) ==
    IF i > Len(s)
    THEN IF word = <<>> THEN <<>> ELSE <<word>>
    ELSE IF IsWhitespace(s[i])
         THEN (IF word = <<>> THEN <<>> ELSE <<word>>) \o SplitFrom(s, i + 1, <<>>)
         ELSE SplitFrom(s, i + 1, Append(word, s[i]))

\* str::split_whitespace, collected
split_whitespace(s) == SplitFrom(s, 1, <<>>)

\* RedisType::extract_string, as whether it yields Some
extract_string(frame) == frame.type \in {"BulkString", "SimpleString"}

\* Mutant of expect_string: the text is not compared
ExpectAnyString(frame, expected) == extract_string(frame)

\* RedisType::expect_string, as whether it yields Ok
expect_string(frame, expected) ==
    /\ extract_string(frame)
    /\ to_lowercase(expected) = to_lowercase(frame.data)

\* RedisRuntime::parse_fullresync, as whether it yields Ok
parse_fullresync(data) ==
    LET parts == split_whitespace(data)
    IN /\ Len(parts) = 3
       /\ parts[1] = <<"F", "U", "L", "L", "R", "E", "S", "Y", "N", "C">>
       /\ parts[3] = <<"0">>

\* RedisRuntime::handle_psync up to the call of accept_rdb_file, as whether the
\* response is taken
psync_accepted(response) ==
    /\ response.type = "SimpleString"
    /\ parse_fullresync(response.data)

\* RedisRuntime::handle_rdb_file: "ok", "err", or "panic" when the slice of the
\* first five bytes is out of range
handle_rdb_file(response) ==
    IF response.type = "RDBFile"
    THEN IF Len(response.file) < 5 THEN "panic"
         ELSE IF SubSeq(response.file, 1, 5) = <<"R", "E", "D", "I", "S">> THEN "ok"
         ELSE "err"
    ELSE "err"

\* The texts a primary may answer with
PONG_text == <<"P", "O", "N", "G">>
pong_text == <<"p", "o", "n", "g">>
OK_text == <<"O", "K">>
ok_text == <<"o", "k">>
FULLRESYNC_text ==
    <<"F", "U", "L", "L", "R", "E", "S", "Y", "N", "C", " ", "i", "d", " ", "0">>
fullresync_text ==
    <<"f", "u", "l", "l", "r", "e", "s", "y", "n", "c", " ", "i", "d", " ", "0">>
FULLRESYNC_offset_text ==
    <<"F", "U", "L", "L", "R", "E", "S", "Y", "N", "C", " ", "i", "d", " ", "1">>
FULLRESYNC_short_text ==
    <<"F", "U", "L", "L", "R", "E", "S", "Y", "N", "C", " ", "0">>

\* The frames the primary's side of the link may deliver as a reply
HandshakeReplies ==
    {SimpleString(PONG_text), SimpleString(pong_text), BulkString(PONG_text),
     SimpleString(OK_text), SimpleString(ok_text), BulkString(OK_text),
     SimpleString(FULLRESYNC_text), SimpleString(fullresync_text),
     SimpleString(FULLRESYNC_offset_text), SimpleString(FULLRESYNC_short_text),
     BulkString(FULLRESYNC_text),
     SimpleError(<<"E", "R", "R">>), NullBulkString}

\* What RedisClient::send_command returns: Ok(frame), or Err when the server did
\* not respond or the parse failed
Received(frame) == [kind |-> "frame", frame |-> frame]

NoResponse == [kind |-> "err", frame |-> NullBulkString]

SendCommandOutcomes == {Received(frame) : frame \in HandshakeReplies} \cup {NoResponse}

\* The snapshots a primary may send
Snapshots ==
    {<<"R", "E", "D", "I", "S", "0", "0", "1", "1">>,
     <<"R", "E", "D", "I", "X", "0", "0", "1", "1">>,
     <<"R", "E", "D">>}

\* What RedisClient::accept_rdb_file returns: the blob read after the FULLRESYNC
\* line, or Err
AcceptRdbOutcomes == {Received(RDBFile(file)) : file \in Snapshots} \cup {NoResponse}

\* Mutant of perform_handshake: the two REPLCONF are sent in the other order
HandshakeCommandSwapped(i) ==
    CASE i = 1 -> PING
      [] i = 2 -> default_capabilities
      [] i = 3 -> REPLCONF_Port(config_port)
      [] i = 4 -> psync_from_scrath

\* The commands perform_handshake sends, in its order
HandshakeCommand(i) ==
    CASE i = 1 -> PING
      [] i = 2 -> REPLCONF_Port(config_port)
      [] i = 3 -> default_capabilities
      [] i = 4 -> psync_from_scrath

\* Mutant of the backoff: the cap is missing
NextBackoffNoCap(b) == b * 2

\* set_up_replica_loop: min(backoff * 2, Duration::from_secs(30))
NextBackoff(b) == IF b * 2 < BackoffCap THEN b * 2 ELSE BackoffCap

\* RedisClient::send_command, the write: the i-th command of the handshake goes
\* out and the reply is awaited in state next, or write_all fails
SendCommand(i, next) ==
    \E ok \in BOOLEAN :
        IF ok
        THEN /\ hsSent' = Append(hsSent, CommandFrame(HandshakeCommand(i)))
             /\ hs' = next
        ELSE /\ hsSent' = hsSent
             /\ hs' = "failed"

InitHS ==
    /\ role \in {"master", "slave"}
    /\ config_port \in Ports
    /\ replication_id = FirstId
    /\ InitPipeline
    /\ InitReplicaLoop

\* perform_handshake returns Ok(None) on a primary and the loop ends
NotAReplica ==
    /\ hs = "start"
    /\ is_master
    /\ hs' = "exit"
    /\ UNCHANGED <<codec, dispatch, downstream, links, replication_id, role, pipeline, config_port, hsSent, hsRecv, backoff, waits,
                   attempts>>

\* perform_handshake: RedisClient::new connects (or is refused) and PING is sent
Connect ==
    /\ hs = "start"
    /\ ~is_master
    /\ attempts < MaxAttempts
    /\ attempts' = attempts + 1
    /\ hsRecv' = <<>>
    /\ \E connected \in BOOLEAN :
         IF connected
         THEN \E ok \in BOOLEAN :
                IF ok
                THEN hsSent' = <<CommandFrame(HandshakeCommand(1))>> /\ hs' = "ping"
                ELSE hsSent' = <<>> /\ hs' = "failed"
         ELSE hsSent' = <<>> /\ hs' = "failed"
    /\ UNCHANGED <<codec, dispatch, downstream, links, replication_id, role, pipeline, config_port, backoff, waits>>

\* perform_handshake: the reply to a command is checked with expect_string and
\* the next command is sent
ExpectReply(state, expected, i, next) ==
    /\ hs = state
    /\ \E r \in SendCommandOutcomes :
         /\ hsRecv' = Append(hsRecv, r)
         /\ IF r.kind = "frame" /\ expect_string(r.frame, expected)
            THEN SendCommand(i, next)
            ELSE hsSent' = hsSent /\ hs' = "failed"
    /\ UNCHANGED <<codec, dispatch, downstream, links, replication_id, role, pipeline, config_port, backoff, waits, attempts>>

AwaitPong == ExpectReply("ping", <<"p", "o", "n", "g">>, 2, "port")

AwaitPortOk == ExpectReply("port", <<"o", "k">>, 3, "capa")

AwaitCapaOk == ExpectReply("capa", <<"o", "k">>, 4, "psync")

\* RedisRuntime::handle_psync: the reply to PSYNC must be the FULLRESYNC line
AwaitFullresync ==
    /\ hs = "psync"
    /\ \E r \in SendCommandOutcomes :
         /\ hsRecv' = Append(hsRecv, r)
         /\ hs' = IF r.kind = "frame" /\ psync_accepted(r.frame) THEN "rdb" ELSE "failed"
    /\ UNCHANGED <<codec, dispatch, downstream, links, replication_id, role, pipeline, config_port, hsSent, backoff, waits, attempts>>

\* RedisRuntime::handle_psync: accept_rdb_file and handle_rdb_file; on success
\* perform_handshake returns the stream and set_up_replica_loop resets the backoff
AwaitRdb ==
    /\ hs = "rdb"
    /\ \E r \in AcceptRdbOutcomes :
         /\ hsRecv' = Append(hsRecv, r)
         /\ LET verdict == IF r.kind = "frame" THEN handle_rdb_file(r.frame) ELSE "err"
            IN /\ hs' = CASE verdict = "ok" -> "ready"
                          [] verdict = "panic" -> "panicked"
                          [] OTHER -> "failed"
               /\ backoff' = IF verdict = "ok" THEN InitialBackoff ELSE backoff
               /\ waits' = IF verdict = "ok" THEN <<>> ELSE waits
    /\ UNCHANGED <<codec, dispatch, downstream, links, replication_id, role, pipeline, config_port, hsSent, attempts>>

\* set_up_replica_loop: both tasks of the connection to the primary have ended
PrimaryLost ==
    /\ hs = "ready"
    /\ hs' = "lost"
    /\ UNCHANGED <<codec, dispatch, downstream, links, replication_id, role, pipeline, config_port, hsSent, hsRecv, backoff, waits,
                   attempts>>

\* set_up_replica_loop: the sleep and the new backoff, then the next attempt
Retry ==
    /\ hs \in {"failed", "lost"}
    /\ waits' = Append(waits, backoff)
    /\ backoff' = NextBackoff(backoff)
    /\ hs' = "start"
    /\ UNCHANGED <<codec, dispatch, downstream, links, replication_id, role, pipeline, config_port, hsSent, hsRecv, attempts>>

NextHS ==
    \/ NotAReplica
    \/ Connect
    \/ AwaitPong
    \/ AwaitPortOk
    \/ AwaitCapaOk
    \/ AwaitFullresync
    \/ AwaitRdb
    \/ PrimaryLost
    \/ Retry

SpecHS == InitHS /\ [][NextHS]_vars

-----------------------------------------------------------------------------
(* Properties of the connection pipeline *)

\* The executor of c takes the item at the head of its queue in this step
Takes(c) ==
    /\ exec[c].pc = "recv"
    /\ queue[c] # <<>>
    /\ queue'[c] = Tail(queue[c])

TakesSet(c) ==
    /\ Takes(c)
    /\ Head(queue[c]).kind = "Command"
    /\ Head(queue[c]).command.name = "SET"

\* The store entry a SET leaves behind
EntryOf(command) == ValueWithExpiry(command.val, {now + ttl : ttl \in command.ttl})

ReadOnlyError == SimpleError("You can't write against a read only replica.")

\* The replies among the frames written on c
Replies(c) == SelectSeq(wire[c], LAMBDA e : e.kind = "reply")

\* C1. Replica gate: on a replica, a SET taken from the queue of a connection that
\* is not the one from the primary leaves the store as it was, is not executed,
\* and the only thing written for it is the read-only error on that connection
\* (written whenever the connection still takes the write).
C1_ReplicaGate ==
    [][\A c \in Conns :
         (~is_master /\ ~from_master[c] /\ TakesSet(c)) =>
            /\ values' = values
            /\ replicas' = replicas
            /\ exec'[c].pc \in {"recv", "done"}
            /\ \/ wire' = [wire EXCEPT ![c] =
                              Append(@, ReplyEntry(Head(queue[c]).n, ReadOnlyError))]
               \/ peer[c] = "closed" /\ wire' = wire /\ exec'[c].pc = "done"]_vars

\* C1 witness: a replica has refused a SET of a client after the primary had set
\* the key to another value, which is still there
C1_Witness ==
    /\ ~is_master
    /\ values["k1"] = ValueWithExpiry(BulkString("v1"), NoExpiry)
    /\ \E i \in DOMAIN wire["c1"] : wire["c1"][i].frame = ReadOnlyError

\* C2. Fanout silence: on a replica, a SET taken from the queue of the connection
\* from the primary is applied to the store, and from the moment it is taken
\* until the executor is done with it nothing is written on that connection.
C2_FanoutSilence ==
    [][\A c \in Conns :
         (~is_master /\ from_master[c]) =>
            /\ TakesSet(c) =>
                  /\ values' = [values EXCEPT ![Head(queue[c]).command.key] =
                                   EntryOf(Head(queue[c]).command)]
                  /\ wire' = wire
            /\ exec[c].cur.name = "SET" =>
                  /\ wire'[c] = wire[c]
                  /\ exec'[c].pc # "done"]_vars

\* C2 witness: a replica has applied a SET of its primary and is done with it, and
\* nothing was written on the connection from the primary
C2_Witness ==
    /\ ~is_master
    /\ values["k1"].present
    /\ exec[PrimaryLink] = Idle
    /\ wire[PrimaryLink] = <<>>

\* C3. Reply rule: when the executor leaves the reply step of an executed command,
\* the result frame has been written on the connection if the server is a primary
\* or the command is no SET (unless the write failed on a closed connection, which
\* ends the task), and nothing has been written otherwise.
C3_ReplyRule ==
    [][\A c \in Conns :
         (exec[c].pc = "reply" /\ exec'[c] # exec[c]) =>
            IF role = "master" \/ exec[c].cur.name # "SET"
            THEN \/ wire' = [wire EXCEPT ![c] =
                               Append(@, ReplyEntry(exec[c].n, exec[c].result))]
                 \/ peer[c] = "closed" /\ wire' = wire /\ exec'[c].pc = "done"
            ELSE wire' = wire /\ exec'[c].pc # "done"]_vars

\* C3 witness: a primary has answered a SET with OK, a GET after it with the value
C3_Witness ==
    /\ is_master
    /\ \E c \in Conns : \E i, j \in DOMAIN wire[c] :
          /\ i < j
          /\ wire[c][i] = ReplyEntry(wire[c][i].n, SimpleString("OK"))
          /\ wire[c][j] = ReplyEntry(wire[c][j].n, BulkString("v1"))

\* C4. Per-connection ordering: the replies written on a connection are the
\* replies to its inputs in the order the inputs were read: the k-th reply on the
\* wire answers an input read after the one the (k-1)-th reply answers.
C4_ReplyOrder ==
    \A c \in Conns : \A i, j \in DOMAIN Replies(c) :
        i < j => Replies(c)[i].n < Replies(c)[j].n

\* C4 witness: a connection carries the replies to a codec error, an unrecognized
\* command and a valid command, read in this order
C4_Witness ==
    \E c \in Conns :
        /\ Len(Replies(c)) = 3
        /\ Replies(c)[1] = ReplyEntry(1, SimpleError("Error parsing input type"))
        /\ Replies(c)[2] = ReplyEntry(2, SimpleError("Not a valid command"))
        /\ Replies(c)[3] = ReplyEntry(3, NullBulkString)

\* The executor of c is done with its command in this step: it goes for the next
\* item, or its task ends
Leaves(c) ==
    /\ exec[c].pc \in {"reply", "replicate", "replicating"}
    /\ exec'[c].pc \in {"recv", "done"}

\* The step writes a replicated command on connection l
ReplicatedTo(l) ==
    /\ Len(wire'[l]) = Len(wire[l]) + 1
    /\ wire'[l][Len(wire'[l])].kind = "replicated"

\* The executor of c has written its command to every link of the replica set
\* when this step is over
FanoutComplete(c) ==
    \/ replicas = <<>>
    \/ exec[c].pc = "replicating" /\ exec[c].idx = Len(replicas)

\* C5. Primary fanout: a command is written to a replica link only by the fanout
\* of a SET that a primary has executed, and the executor of a primary is done
\* with an executed SET only when the SET has been written to every link of the
\* replica set.
C5_PrimaryFanout ==
    [][/\ \A l \in Conns :
            ReplicatedTo(l) =>
               /\ is_master
               /\ \E c \in Conns, i \in DOMAIN replicas :
                     /\ exec[c].pc = "replicating"
                     /\ exec[c].cur.name = "SET"
                     /\ exec[c].idx = i
                     /\ replicas[i].connection = l
                     /\ wire'[l][Len(wire'[l])].frame = CommandFrame(exec[c].cur)
       /\ \A c \in Conns :
            (is_master /\ exec[c].cur.name = "SET" /\ Leaves(c)) => FanoutComplete(c)
      ]_vars

\* C6. A failed write to a replica link removes the link from the replica set.
C6_FailedLinkRemoved ==
    [][\A c \in Conns :
         (/\ exec[c].pc = "replicating"
          /\ exec'[c] # exec[c]
          /\ wire' = wire) =>
            \A i \in DOMAIN replicas' :
                replicas'[i].connection # replicas[exec[c].idx].connection]_vars

\* C7. For a SET that the executor of a primary takes from the queue, the store is
\* changed first (nothing is written in that step), the fanout starts only after
\* the reply, and the executor is done with the SET only after the fanout to every
\* link.
C7_ReplyAndFanout ==
    [][\A c \in Conns :
         is_master =>
            /\ TakesSet(c) =>
                  /\ values' = [values EXCEPT ![Head(queue[c]).command.key] =
                                   EntryOf(Head(queue[c]).command)]
                  /\ wire' = wire
                  /\ exec'[c].pc = "reply"
            /\ (exec[c].cur.name = "SET" /\ exec'[c].pc = "replicate"
                    /\ exec[c].pc # "replicate") =>
                  /\ exec[c].pc = "reply"
                  /\ wire' = [wire EXCEPT ![c] =
                                 Append(@, ReplyEntry(exec[c].n, SimpleString("OK")))]
            /\ (exec[c].cur.name = "SET" /\ Leaves(c)) => FanoutComplete(c)]_vars

-----------------------------------------------------------------------------
(* Properties of the replica's handshake and retry loop *)

\* The four frames of the handshake, for the server's own port
HandshakeFrames ==
    <<List(<<BulkString(<<"P", "I", "N", "G">>)>>),
      List(<<BulkString(<<"R", "E", "P", "L", "C", "O", "N", "F">>),
             BulkString(<<"l", "i", "s", "t", "e", "n", "i", "n", "g", "-",
                          "p", "o", "r", "t">>),
             BulkString(IF config_port = 6379 THEN <<"6", "3", "7", "9">>
                        ELSE <<"6", "3", "8", "0">>)>>),
      List(<<BulkString(<<"R", "E", "P", "L", "C", "O", "N", "F">>),
             BulkString(<<"c", "a", "p", "a">>),
             BulkString(<<"p", "s", "y", "n", "c", "2">>)>>),
      List(<<BulkString(<<"P", "S", "Y", "N", "C">>), BulkString(<<"?">>),
             BulkString(<<"-", "1">>)>>)>>

\* The replies that let the handshake go on, step by step
GoodPong ==
    {Received(SimpleString(PONG_text)), Received(SimpleString(pong_text)),
     Received(BulkString(PONG_text))}

GoodOk ==
    {Received(SimpleString(OK_text)), Received(SimpleString(ok_text)),
     Received(BulkString(OK_text))}

GoodFullresync == {Received(SimpleString(FULLRESYNC_text))}

GoodSnapshot == {Received(RDBFile(<<"R", "E", "D", "I", "S", "0", "0", "1", "1">>))}

GoodReplies == <<GoodPong, GoodOk, GoodOk, GoodFullresync, GoodSnapshot>>

\* C8. Handshake literal: what an attempt has sent is a prefix of PING, REPLCONF
\* listening-port <own port>, REPLCONF capa psync2, PSYNC ? -1, and the i-th of
\* them has been sent only when the replies to all earlier ones were received
\* and were the expected ones.
C8_HandshakeLiteral ==
    /\ Len(hsSent) <= 4
    /\ \A i \in DOMAIN hsSent :
         /\ hsSent[i] = HandshakeFrames[i]
         /\ Len(hsRecv) >= i - 1
         /\ \A j \in 1..(i - 1) : hsRecv[j] \in GoodReplies[j]

\* C8 witness: a replica whose port is not the default has sent all four frames
C8_Witness ==
    /\ config_port = 6380
    /\ Len(hsSent) = 4
    /\ hs = "psync"

\* C9. The replica is ready only when the attempt has received exactly five
\* things, in order: PONG, OK, OK (string frames, texts compared without case),
\* the SimpleString FULLRESYNC <id> 0 and a snapshot that starts with REDIS; an
\* attempt that has received anything else at any step (a frame that is not a
\* string, another text, no response, another or a shorter snapshot) is not
\* ready.
C9_ReadyOnlyAfterHandshake ==
    hs = "ready" =>
        /\ Len(hsRecv) = 5
        /\ \A j \in 1..5 : hsRecv[j] \in GoodReplies[j]

\* C9 witness: a replica is ready after replies whose case differs from the
\* expected text
C9_Witness ==
    /\ hs = "ready"
    /\ hsRecv[1] = Received(SimpleString(pong_text))
    /\ hsRecv[3] = Received(SimpleString(ok_text))

\* The k-th wait after startup or after a successful handshake
ExpectedWait(k) == IF k >= 6 THEN 30 ELSE 2 ^ (k - 1)

\* C10. Replica retry backoff: the waits since startup or since the last
\* successful handshake are 1, 2, 4, 8, 16, 30, 30, ...; the wait that is about to
\* start is the next of these, and after the loss of an established connection
\* it is 1 second.
C10_Backoff ==
    /\ \A k \in DOMAIN waits : waits[k] = ExpectedWait(k)
    /\ hs \in {"failed", "lost"} => backoff = ExpectedWait(Len(waits) + 1)
    /\ hs = "lost" => backoff = 1
    /\ backoff <= 30

\* C10 witness: the first handshake succeeded, the connection was lost, and six
\* failed attempts followed
C10_Witness ==
    /\ hs = "start"
    /\ attempts = 8
    /\ waits = <<1, 2, 4, 8, 16, 30, 30>>

-----------------------------------------------------------------------------
(* The store under a running clock: a primary, two clients, SET with and without *)
(* PX, GET, and Instant::now() moving on between the steps of the executors.    *)

StoreCommands ==
    {GET("k1"),
     SET("k1", BulkString("v1"), Ttl(1)),
     SET("k1", BulkString("v2"), Ttl(2)),
     SET("k1", BulkString("v2"), NoTtl)}

StoreInputs(n) == {Command(command, n) : command \in StoreCommands}

ReadStore(c) == ReadInput(c, StoreInputs(nread[c] + 1))

\* Instant::now() moves on
Tick ==
    /\ now < MaxTime
    /\ now' = now + 1
    /\ UNCHANGED <<handshake, codec, dispatch, downstream, links, replication_id, role, values, replicas, replicasLock, conn, from_master, peer,
                   reader, nread, queue, exec, wire>>

InitStore ==
    /\ role = "master"
    /\ config_port = DefaultPort
    /\ replication_id = FirstId
    /\ InitPipeline
    /\ InitReplicaLoop

NextStore ==
    \/ \E c \in Conns : Accept(c)
    \/ \E c \in Conns : ReadStore(c)
    \/ \E c \in Conns : Execute(c)
    \/ \E c \in Conns : RemoveExpired(c)
    \/ \E c \in Conns : Reply(c)
    \/ \E c \in Conns : ReplicateLock(c)
    \/ Tick

SpecStore == InitStore /\ [][NextStore]_vars

-----------------------------------------------------------------------------
(* The retry loop under fair scheduling *)

\* The task of set_up_replica_loop is scheduled: the sleep of the loop ends and
\* the next call of perform_handshake is made
SpecHSLive == InitHS /\ [][NextHS]_vars /\ WF_vars(Retry) /\ WF_vars(Connect)

\* C11. On a replica every handshake failure (refused connection, unexpected
\* reply, malformed FULLRESYNC line, a snapshot that is missing, shorter than
\* five bytes or without the REDIS magic) and every loss of the primary
\* connection is eventually followed by the loop standing at its next call of
\* perform_handshake.
C11_RetryForever ==
    (hs \in {"failed", "lost", "panicked"}) ~> (hs = "start")

-----------------------------------------------------------------------------
(* Properties of the store *)

\* The executor of c takes a SET of key k, or a GET of key k, in this step
TakesSetOf(c, k) == TakesSet(c) /\ Head(queue[c]).command.key = k

TakesGetOf(c, k) ==
    /\ Takes(c)
    /\ Head(queue[c]).kind = "Command"
    /\ Head(queue[c]).command.name = "GET"
    /\ Head(queue[c]).command.key = k

\* C12. TTL: the entry that SET k v PX t left at time T, with expiry T + t, stays
\* as it is until a later SET of k or until it is removed after T + t; a GET k
\* taken before T + t yields v, and a GET k taken after T + t yields
\* NullBulkString and removes the entry.
C12_Ttl ==
    [][\A k \in Keys : \A e \in values[k].expiry :
         /\ values'[k] # values[k] =>
               \/ \E c \in Conns : TakesSetOf(c, k)
               \/ now > e /\ values'[k] = NoEntry
         /\ \A c \in Conns :
               /\ (TakesGetOf(c, k) /\ now < e) =>
                     /\ exec'[c].pc = "reply"
                     /\ exec'[c].result = values[k].value
               /\ (TakesGetOf(c, k) /\ now > e) => exec'[c].pc = "expired"
               /\ (exec[c].pc = "expired" /\ exec[c].cur.key = k /\ exec'[c] # exec[c]) =>
                     /\ exec'[c].pc = "reply"
                     /\ exec'[c].result = NullBulkString
                     /\ values'[k] = NoEntry]_vars

\* C13. SET is an unconditional overwrite of value and expiry: a SET k leaves
\* exactly its value and its own expiry (none without PX); an entry without
\* expiry changes only by a later SET of k; a GET of a key with no entry yields
\* NullBulkString, a GET of a key whose expiry has not elapsed yields the value
\* of the entry.
C13_SetOverwrites ==
    [][\A k \in Keys : \A c \in Conns :
         /\ TakesSetOf(c, k) => values'[k] = EntryOf(Head(queue[c]).command)
         /\ (values[k].present /\ values[k].expiry = NoExpiry /\ values'[k] # values[k]) =>
               \E d \in Conns : TakesSetOf(d, k)
         /\ (TakesGetOf(c, k) /\ ~values[k].present) =>
               /\ exec'[c].result = NullBulkString
               /\ values' = values
         /\ (TakesGetOf(c, k) /\ values[k].present /\ \A e \in values[k].expiry : now <= e) =>
               exec'[c].result = values[k].value]_vars

-----------------------------------------------------------------------------
(* Properties of the replication commands on the serving side *)

\* The executor of c takes a REPLCONF listening-port in this step
TakesReplconfPort(c) ==
    /\ Takes(c)
    /\ Head(queue[c]).kind = "Command"
    /\ Head(queue[c]).command.name = "REPLCONF"
    /\ Head(queue[c]).command.arg = "Port"

\* C14. On a primary, executing REPLCONF listening-port p taken from connection c
\* appends the link (write-half of c, peer_ip:p) to the replica set and yields
\* SimpleString OK while nothing has been written yet; the OK is written on c
\* afterwards, when the link is already registered; executed without a
\* connection context it yields OK and leaves the replica set as it is.
C14_ReplconfRegisters ==
    [][is_master =>
         /\ \A c \in Conns :
               /\ TakesReplconfPort(c) =>
                     /\ replicas' = Append(replicas,
                            Replica(c, SocketAddr(peer_ip(c), Head(queue[c]).command.port)))
                     /\ exec'[c].result = SimpleString("OK")
                     /\ exec'[c].pc = "reply"
                     /\ wire' = wire
               /\ (exec[c].cur.name = "REPLCONF" /\ exec'[c] # exec[c] /\ wire'[c] # wire[c]) =>
                     /\ wire'[c] = Append(wire[c], ReplyEntry(exec[c].n, SimpleString("OK")))
                     /\ \E i \in DOMAIN replicas :
                          replicas[i] = Replica(c, SocketAddr(peer_ip(c), exec[c].cur.port))
         /\ \A port \in Ports :
               /\ ExecuteResult(REPLCONF_Port(port)) = SimpleString("OK")
               /\ ExecuteReplicas(NoConn, REPLCONF_Port(port)) = replicas]_vars

\* C14 witness: a primary has registered the link of c1 with port 6380 and has
\* written the OK on c1
C14_Witness ==
    /\ is_master
    /\ replicas = <<Replica("c1", SocketAddr("127.0.0.1", 6380))>>
    /\ wire["c1"] = <<ReplyEntry(1, SimpleString("OK"))>>

\* C15. The replica set of a primary holds at most one link per inbound
\* connection, so that one turn of the fanout writes a command at most once on
\* any connection.
C15_OneLinkPerConnection ==
    \A i, j \in DOMAIN replicas :
        i # j => replicas[i].connection # replicas[j].connection

\* C16. On a replica, executing REPLCONF listening-port yields SimpleError "You
\* can't sync with a replica" and registers nothing; the replica set of a replica
\* stays empty, its executors never enter the fanout and no replicated command
\* is ever written on one of its connections.
C16_ReplicaNeverSyncs ==
    [][~is_master =>
         /\ \A c \in Conns :
               /\ TakesReplconfPort(c) =>
                     /\ exec'[c].result = SimpleError("You can't sync with a replica")
                     /\ replicas' = replicas
               /\ exec'[c].pc \notin {"replicate", "replicating"}
               /\ \A i \in DOMAIN wire'[c] : wire'[c][i].kind # "replicated"
         /\ replicas' = <<>>
         /\ replicasLock' = NoConn]_vars

\* C16 witness: a replica has answered a REPLCONF listening-port of a client with
\* the error, and has applied a SET of its primary
C16_Witness ==
    /\ ~is_master
    /\ values["k1"].present
    /\ \E i \in DOMAIN wire["c1"] :
          wire["c1"][i].frame = SimpleError("You can't sync with a replica")

-----------------------------------------------------------------------------
(* The frame codec of redis_type.rs, on sequences of characters *)

CRLF == <<"\r", "\n">>

RECURSIVE write_as_protocol(_)
RECURSIVE WriteAll(_)

\* The serializations of the frames of a sequence, one after the other
WriteAll(frames) ==
    IF frames = <<>> THEN <<>>
    ELSE write_as_protocol(Head(frames)) \o WriteAll(Tail(frames))

\* RedisType::write_as_protocol; the snapshot blob has no CRLF after its bytes
write_as_protocol(frame) ==
    CASE frame.type = "List" ->
            <<"*">> \o NatChars(Len(frame.elems)) \o CRLF \o WriteAll(frame.elems)
      [] frame.type = "BulkString" ->
            <<"$">> \o NatChars(Len(frame.data)) \o CRLF \o frame.data \o CRLF
      [] frame.type = "NullBulkString" -> <<"$", "-", "1">> \o CRLF
      [] frame.type = "SimpleString" -> <<"+">> \o frame.data \o CRLF
      [] frame.type = "SimpleError" -> <<"-">> \o frame.message \o CRLF
      [] frame.type = "RDBFile" ->
            <<"$">> \o NatChars(Len(frame.file)) \o CRLF \o frame.file
      [] frame.type = "Multiple" -> WriteAll(frame.frames)

\* The index of the first LF of s, or Len(s) when there is none
RECURSIVE LineEnd(_, _)
LineEnd(s, i) ==
    IF i >= Len(s) THEN Len(s)
    ELSE IF s[i] = "\n" THEN i ELSE LineEnd(s, i + 1)

\* AsyncBufReadExt::read_line: the bytes up to and including the first LF, or
\* all of them at end-of-stream
BufReadLine(s) ==
    LET end == IF s = <<>> THEN 0 ELSE LineEnd(s, 1)
    IN [line |-> SubSeq(s, 1, end), rest |-> SubSeq(s, end + 1, Len(s))]

\* str::trim_end
RECURSIVE trim_end(_)
trim_end(s) ==
    IF s # <<>> /\ s[Len(s)] \in {" ", "\t", "\r", "\n"}
    THEN trim_end(SubSeq(s, 1, Len(s) - 1))
    ELSE s

\* RedisType::read_line: a line without its trailing whitespace
read_line(s) == [line |-> trim_end(BufReadLine(s).line), rest |-> BufReadLine(s).rest]

IsDigits(s) == s # <<>> /\ \A i \in DOMAIN s : \E d \in DOMAIN Digits : Digits[d] = s[i]

DigitValue(ch) == (CHOOSE d \in DOMAIN Digits : Digits[d] = ch) - 1

RECURSIVE NatValue(_)
NatValue(s) ==
    IF s = <<>> THEN 0 ELSE NatValue(SubSeq(s, 1, Len(s) - 1)) * 10 + DigitValue(s[Len(s)])

\* str::parse::<u64> and str::parse::<i64>: Ok(value) or Err
ParseU64(s) ==
    LET digits == IF s # <<>> /\ s[1] = "+" THEN Tail(s) ELSE s
    IN IF IsDigits(digits) THEN [ok |-> TRUE, value |-> NatValue(digits)]
       ELSE [ok |-> FALSE, value |-> 0]

ParseI64(s) ==
    IF s # <<>> /\ s[1] = "-"
    THEN IF IsDigits(Tail(s)) THEN [ok |-> TRUE, value |-> 0 - NatValue(Tail(s))]
         ELSE [ok |-> FALSE, value |-> 0]
    ELSE ParseU64(s)

\* What RedisType::parse returns, with the bytes it has left in the reader:
\* Ok(Some(frame)), Ok(None), Err, or a panic
ParsedSome(frame, rest) == [kind |-> "some", frame |-> frame, rest |-> rest]

ParsedNone == [kind |-> "none", frame |-> NullBulkString, rest |-> <<>>]

ParseErr(rest) == [kind |-> "err", frame |-> NullBulkString, rest |-> rest]

ParsePanic(rest) == [kind |-> "panic", frame |-> NullBulkString, rest |-> rest]

UnknownCommandPrefix ==
    <<"U", "n", "k", "n", "o", "w", "n", " ", "c", "o", "m", "m", "a", "n", "d", " ">>

\* Mutant of the '+' arm: only one byte is cut off the line
TruncateOne(line) == SubSeq(line, 1, Len(line) - 1)

\* The '+' arm: line.truncate(line.len() - 2)
TruncateCrlf(line) == SubSeq(line, 1, Len(line) - 2)

\* Mutant of the last arm: a tag byte without an arm of its own fails the parse
UnknownTagFails(command_char, body) == ParseErr(body)

\* The last arm: any other tag byte is consumed alone and becomes a SimpleError
UnknownTag(command_char, body) ==
    ParsedSome(SimpleError(UnknownCommandPrefix \o <<command_char>>), body)

RECURSIVE parse(_, _)
RECURSIVE ParseElements(_, _, _, _)

\* The loop of the '*' arm: len calls of parse, a None is skipped
ParseElements(s, len, elements, overflow_checks) ==
    IF len = 0 \/ s = <<>>
    THEN [kind |-> "ok", elements |-> elements, rest |-> s]
    ELSE LET r == parse(s, overflow_checks)
         IN IF r.kind = "some"
            THEN ParseElements(r.rest, len - 1, Append(elements, r.frame), overflow_checks)
            ELSE [kind |-> r.kind, elements |-> elements, rest |-> r.rest]

\* RedisType::parse on the bytes s of the reader; overflow_checks is the build's
\* setting for line.len() - 2 on a line shorter than two bytes
parse(s, overflow_checks) ==
    IF s = <<>> THEN ParsedNone
    ELSE LET command_char == Head(s)
             body == Tail(s)
         IN CASE command_char = "*" ->
                   LET l == read_line(body)
                       len == ParseU64(l.line)
                       r == ParseElements(l.rest, len.value, <<>>, overflow_checks)
                   IN IF ~len.ok THEN ParseErr(l.rest)
                      ELSE IF r.kind = "ok" THEN ParsedSome(List(r.elements), r.rest)
                      ELSE [kind |-> r.kind, frame |-> NullBulkString, rest |-> r.rest]
              [] command_char = "$" ->
                   LET l == read_line(body)
                       len == ParseI64(l.line)
                   IN IF ~len.ok THEN ParseErr(l.rest)
                      ELSE IF len.value = -1 THEN ParsedSome(NullBulkString, l.rest)
                      ELSE IF len.value < 0 THEN ParseErr(l.rest)
                      ELSE IF Len(l.rest) < len.value + 2 THEN ParseErr(<<>>)
                      ELSE ParsedSome(BulkString(SubSeq(l.rest, 1, len.value)),
                                      SubSeq(l.rest, len.value + 3, Len(l.rest)))
              [] command_char = "+" ->
                   LET l == BufReadLine(body)
                   IN IF Len(l.line) < 2
                      THEN IF overflow_checks THEN ParsePanic(l.rest)
                           ELSE ParsedSome(SimpleString(l.line), l.rest)
                      ELSE ParsedSome(SimpleString(TruncateCrlf(l.line)), l.rest)
              [] OTHER -> UnknownTag(command_char, body)

\* The frames given to the codec
ShortSeqs(S) == {<<>>} \cup {<<a>> : a \in S} \cup {<<a, b>> : a, b \in S}

ListElements == {BulkString(CRLF), NullBulkString}

RECURSIVE FramesOfDepth(_)
FramesOfDepth(d) ==
    IF d = 0 THEN ListElements
    ELSE ListElements \cup {List(elems) : elems \in ShortSeqs(FramesOfDepth(d - 1))}

ErrorFreeFrames ==
    {SimpleString(<<>>), SimpleString(<<"a">>), BulkString(<<>>), BulkString(<<"a">>),
     List(<<List(<<SimpleString(<<"a">>), BulkString(<<>>)>>), SimpleString(<<>>)>>)}
        \cup FramesOfDepth(MaxDepth)

ErrorFrames == {SimpleError(<<"e">>), List(<<SimpleError(<<"e">>), BulkString(<<"a">>)>>)}

CodecFrames == ErrorFreeFrames \cup ErrorFrames

Followers == {BulkString(<<"a">>), SimpleString(<<"a">>)}

\* A reader over the serialization of one frame, or of two frames
InitCodec ==
    /\ role = "master"
    /\ replication_id = FirstId
    /\ config_port = DefaultPort
    /\ values = [k \in Keys |-> NoEntry]
    /\ now = 0
    /\ replicas = <<>>
    /\ replicasLock = NoConn
    /\ conn = [c \in Conns |-> "none"]
    /\ from_master = [c \in Conns |-> FALSE]
    /\ peer = [c \in Conns |-> "open"]
    /\ reader = [c \in Conns |-> "none"]
    /\ nread = [c \in Conns |-> 0]
    /\ queue = [c \in Conns |-> <<>>]
    /\ exec = [c \in Conns |-> Idle]
    /\ wire = [c \in Conns |-> <<>>]
    /\ InitReplicaLoop
    /\ written \in {<<f>> : f \in CodecFrames}
                    \cup {<<f1, f2>> : f1 \in CodecFrames, f2 \in Followers}
    /\ stream = WriteAll(written)
    /\ parsed = <<>>
    /\ InitDispatch
    /\ InitDownstream
    /\ InitLinks

\* One call of RedisType::parse on the reader
ParseFrame ==
    /\ Len(parsed) < Len(written)
    /\ \E overflow_checks \in BOOLEAN :
         LET r == parse(stream, overflow_checks)
         IN /\ parsed' = Append(parsed, [kind |-> r.kind, frame |-> r.frame])
            /\ stream' = r.rest
    /\ UNCHANGED <<written, dispatch, downstream, links, replication_id, role, pipeline, handshake>>

NextCodec == ParseFrame

SpecCodec == InitCodec /\ [][NextCodec]_vars

\* The frame holds no SimpleError
RECURSIVE NoSimpleError(_)
NoSimpleError(frame) ==
    /\ frame.type # "SimpleError"
    /\ frame.type = "List" => \A i \in DOMAIN frame.elems : NoSimpleError(frame.elems[i])

Parsed(frame) == [kind |-> "some", frame |-> frame]

\* C19. Codec round trip: parsing the serialization of a frame that holds no
\* SimpleError yields Some of that frame and leaves the reader at end-of-stream.
C19_RoundTrip ==
    (Len(written) = 1 /\ Len(parsed) = 1 /\ NoSimpleError(written[1])) =>
        /\ parsed[1] = Parsed(written[1])
        /\ stream = <<>>

\* C19 witness: the round trip of a list that holds a list with a bulk string
\* with CR LF in it and a null bulk string, and the empty list
C19_Witness ==
    /\ written = <<List(<<List(<<BulkString(CRLF), NullBulkString>>), List(<<>>)>>)>>
    /\ parsed = <<Parsed(written[1])>>
    /\ stream = <<>>

\* C20. Codec non-over-read: on the serializations of two frames one after the
\* other, the first parse yields the first frame and leaves exactly the bytes of
\* the second, and the second parse yields the second frame and leaves nothing.
C20_NoOverRead ==
    Len(written) = 2 =>
        /\ Len(parsed) >= 1 => parsed[1] = Parsed(written[1])
        /\ Len(parsed) = 1 => stream = write_as_protocol(written[2])
        /\ Len(parsed) = 2 => parsed[2] = Parsed(written[2]) /\ stream = <<>>

\* C21. A frame with the tag byte '-' parses to the SimpleError whose message is
\* the bytes up to the CR LF, and the parse consumes exactly that line: the next
\* parse starts at the frame that follows.
C21_SimpleErrorLine ==
    (Len(parsed) >= 1 /\ written[1].type = "SimpleError") =>
        /\ parsed[1] = Parsed(written[1])
        /\ Len(parsed) = 1 => stream = WriteAll(Tail(written))

-----------------------------------------------------------------------------
(* The codec on bytes that no serializer wrote: frames cut short by the end of *)
(* the stream, bad lengths, tag bytes the protocol does not have               *)

\* The frames whose serializations are cut
CutFrames ==
    {SimpleString(<<"a", "b">>), BulkString(<<"a">>), NullBulkString,
     List(<<SimpleString(<<"a">>)>>),
     List(<<BulkString(<<"a">>), BulkString(<<"b">>)>>),
     List(<<List(<<NullBulkString, BulkString(<<"a">>)>>), SimpleString(<<"b">>)>>)}

Prefixes(s) == {SubSeq(s, 1, n) : n \in 0..Len(s)}

\* Tag bytes without an arm in RedisType::parse and without a frame kind in the
\* protocol of this server
UnknownTags == {"x", ":", "\n", " "}

\* Bytes behind an unknown tag byte
Tails == {<<>>, CRLF, <<"1">> \o CRLF, <<"+", "a">> \o CRLF}

\* Lines with a length that is no number or is below -1, and simple strings
\* that end before their CR LF
BadLines ==
    {<<"$", "x">> \o CRLF, <<"$", "-", "2">> \o CRLF, <<"*", "x">> \o CRLF,
     <<"*", "-", "1">> \o CRLF, <<"+", "\n">>, <<"+">>, <<"+", "a">>,
     <<"$", "x">> \o CRLF \o <<"+", "a">> \o CRLF}

\* A reader over a cut serialization (written holds the frame that was cut), or
\* over bytes that are no serialization (written is empty)
InitBytes ==
    /\ role = "master"
    /\ replication_id = FirstId
    /\ config_port = DefaultPort
    /\ values = [k \in Keys |-> NoEntry]
    /\ now = 0
    /\ replicas = <<>>
    /\ replicasLock = NoConn
    /\ conn = [c \in Conns |-> "none"]
    /\ from_master = [c \in Conns |-> FALSE]
    /\ peer = [c \in Conns |-> "open"]
    /\ reader = [c \in Conns |-> "none"]
    /\ nread = [c \in Conns |-> 0]
    /\ queue = [c \in Conns |-> <<>>]
    /\ exec = [c \in Conns |-> Idle]
    /\ wire = [c \in Conns |-> <<>>]
    /\ InitReplicaLoop
    /\ \/ /\ written \in {<<f>> : f \in CutFrames}
          /\ stream \in Prefixes(WriteAll(written))
       \/ /\ written = <<>>
          /\ stream \in {<<tag>> \o tail : tag \in UnknownTags, tail \in Tails}
                            \cup BadLines
    /\ parsed = <<>>
    /\ InitDispatch
    /\ InitDownstream
    /\ InitLinks

\* One call of RedisType::parse on the reader; the calls go on after Some and
\* after Err, as in the loop of handle_reading
ParseBytes ==
    /\ IF parsed = <<>> THEN TRUE ELSE parsed[Len(parsed)].kind \in {"some", "err"}
    /\ \E overflow_checks \in BOOLEAN :
         LET r == parse(stream, overflow_checks)
         IN /\ parsed' = Append(parsed, [kind |-> r.kind, frame |-> r.frame])
            /\ stream' = r.rest
    /\ UNCHANGED <<written, dispatch, downstream, links, replication_id, role, pipeline, handshake>>

NextBytes == ParseBytes

SpecBytes == InitBytes /\ [][NextBytes]_vars

\* The tag bytes of the frames of the protocol
ProtocolTags == {"*", "$", "+", "-"}

\* C22. A frame that starts with a tag byte c the protocol does not have does not
\* fail the parse: the parse returns Some(SimpleError "Unknown command c") and
\* consumes the tag byte.
C22_UnknownTag ==
    [][(stream # <<>> /\ Head(stream) \notin ProtocolTags /\ parsed' # parsed) =>
          /\ parsed' = Append(parsed,
                          Parsed(SimpleError(UnknownCommandPrefix \o <<Head(stream)>>)))
          /\ stream' = Tail(stream)]_vars

\* C22 witness: the byte ':' was parsed to SimpleError "Unknown command :", and
\* the line behind it is still in the reader
C22_Witness ==
    /\ parsed = <<Parsed(SimpleError(UnknownCommandPrefix \o <<":">>))>>
    /\ stream = <<"1">> \o CRLF

\* The count the header line of a list declares
DeclaredCount(s) == NatValue(read_line(Tail(s)).line)

\* C23. Parse returns None only at a clean end-of-stream, with zero bytes before
\* the tag byte; it fails when the stream ends in the middle of a frame (a list
\* with fewer complete children than its count, a simple string without its
\* CR LF); a List it returns has as many children as its header declared.
C23_EndOfStream ==
    [][(parsed = <<>> /\ parsed' # parsed) =>
          /\ parsed'[1].kind = "none" <=> stream = <<>>
          /\ (written # <<>> /\ stream # <<>> /\ stream # WriteAll(written)) =>
                 parsed'[1].kind \in {"err", "panic"}
          /\ (parsed'[1].kind = "some" /\ parsed'[1].frame.type = "List") =>
                 Len(parsed'[1].frame.elems) = DeclaredCount(stream)]_vars

-----------------------------------------------------------------------------
(* RedisCommand::parse of redis_command.rs: from a frame to a command.  None is *)
(* NoCommand; texts are sequences of characters.                               *)

\* flags behind the key and the value of the SET frames given to the parser
MaxFlags == 3

\* u16::MAX, the largest port raw.parse() takes
MaxU16 == 65535

UpperChar(ch) ==
    IF \E i \in DOMAIN Lowers : Lowers[i] = ch
    THEN Uppers[CHOOSE i \in DOMAIN Lowers : Lowers[i] = ch]
    ELSE ch

\* str::to_uppercase
to_uppercase(s) == [i \in DOMAIN s |-> UpperChar(s[i])]

\* str::parse::<u16>
ParseU16(s) ==
    IF ParseU64(s).ok /\ ParseU64(s).value <= MaxU16 THEN ParseU64(s)
    ELSE [ok |-> FALSE, value |-> 0]

\* RedisCommand::parse_echo
parse_echo(data) ==
    IF data # <<>> /\ extract_string(data[1]) THEN ECHO(data[1].data) ELSE NoCommand

\* RedisCommand::parse_get
parse_get(data) ==
    IF data # <<>> /\ extract_string(data[1]) THEN GET(data[1].data) ELSE NoCommand

\* RedisCommand::parse_info
parse_info(data) ==
    IF data # <<>> /\ extract_string(data[1]) THEN INFO(data[1].data) ELSE NoCommand

\* The PX arm of parse_set: data.get(i + 1), extract_string, parse::<u64>,
\* Duration::from_millis; any of them failing leaves None
PxTtl(data, j) ==
    IF j <= Len(data) /\ extract_string(data[j]) /\ ParseU64(data[j].data).ok
    THEN Ttl(ParseU64(data[j].data).value)
    ELSE NoTtl

\* Mutant of the scan: an unknown flag takes the element behind it with it
SkipsTwo(i) == i + 2

\* The scan of parse_set behind an element that is not PX: i += 1
SkipsOne(i) == i + 1

\* The while loop of parse_set from element i on, ttl being the TTL so far
RECURSIVE ScanFlags(_, _, _)
ScanFlags(data, i, ttl) ==
    IF i > Len(data) THEN ttl
    ELSE IF extract_string(data[i]) /\ to_uppercase(data[i].data) = <<"P", "X">>
         THEN ScanFlags(data, i + 2, PxTtl(data, i + 1))
         ELSE ScanFlags(data, SkipsOne(i), ttl)

\* RedisCommand::parse_set
parse_set(data) ==
    IF Len(data) < 2 THEN NoCommand
    ELSE IF ~extract_string(data[1]) THEN NoCommand
    ELSE SET(data[1].data, data[2], ScanFlags(data, 3, NoTtl))

\* RedisCommand::parse_replconf
parse_replconf(data) ==
    IF Len(data) < 2 THEN NoCommand
    ELSE IF extract_string(data[1]) /\ data[1].data = listening_port_text
         THEN IF extract_string(data[2]) /\ ParseU16(data[2].data).ok
              THEN REPLCONF_Port(ParseU16(data[2].data).value)
              ELSE NoCommand
    ELSE IF extract_string(data[1]) /\ data[1].data = capa_text
         THEN IF extract_string(data[2]) /\ data[2].data = psync2_text
              THEN REPLCONF_Capabilities
              ELSE NoCommand
    ELSE NoCommand

\* RedisCommand::parse_psync
parse_psync(data) ==
    IF Len(data) # 2 THEN NoCommand
    ELSE IF extract_string(data[1]) /\ extract_string(data[2])
            /\ ParseI64(data[2].data).ok
         THEN PSYNC(data[1].data, ParseI64(data[2].data).value)
         ELSE NoCommand

\* RedisCommand::parse
RECURSIVE parse_command(_)
parse_command(data) ==
    CASE data.type = "List" /\ data.elems # <<>> ->
            IF Len(data.elems) = 1 THEN parse_command(data.elems[1])
            ELSE LET rest == Tail(data.elems)
                     first == data.elems[1]
                 IN IF ~extract_string(first) THEN NoCommand
                    ELSE LET name == to_lowercase(first.data)
                         IN CASE name = <<"e", "c", "h", "o">> -> parse_echo(rest)
                              [] name = <<"g", "e", "t">> -> parse_get(rest)
                              [] name = <<"s", "e", "t">> -> parse_set(rest)
                              [] name = <<"i", "n", "f", "o">> -> parse_info(rest)
                              [] name = <<"r", "e", "p", "l", "c", "o", "n", "f">> ->
                                    parse_replconf(rest)
                              [] name = <<"p", "s", "y", "n", "c">> -> parse_psync(rest)
                              [] OTHER -> NoCommand
      [] data.type \in {"BulkString", "SimpleString"} ->
            IF to_lowercase(data.data) = <<"p", "i", "n", "g">> THEN PING ELSE NoCommand
      [] OTHER -> NoCommand

\* The frames given to RedisCommand::parse
Bulks(texts) == {BulkString(t) : t \in texts}

BareFrames ==
    Bulks({PING_text, <<"p", "i", "n", "g">>, <<"P", "i", "n", "g">>, <<"p", "o", "n", "g">>,
           <<>>, SET_text})
        \cup {SimpleString(PING_text), SimpleString(<<"p", "i", "n", "G">>),
              SimpleString(<<"I", "N", "V", "A", "L", "I", "D">>),
              NullBulkString, SimpleError(<<"e">>)}

NameFrames ==
    Bulks({ECHO_text, <<"e", "c", "h", "o">>, GET_text, <<"g", "E", "t">>, SET_text,
           <<"s", "e", "t">>, INFO_text, <<"i", "n", "f", "o">>, REPLCONF_text,
           <<"r", "e", "p", "l", "c", "o", "n", "f">>, PSYNC_text, <<"p", "s", "y", "n", "c">>,
           PING_text, <<"f", "o", "o">>, <<"s", "e", "t", "x">>, <<>>})
        \cup {SimpleString(<<"G", "e", "t">>), SimpleString(<<"S", "e", "T">>),
              NullBulkString, List(<<BulkString(GET_text)>>), SimpleError(GET_text)}

ArgFrames ==
    Bulks({<<"k">>, <<"-", "1">>, <<"7">>, <<"?">>})
        \cup {SimpleString(<<"k">>), NullBulkString, List(<<BulkString(<<"k">>)>>)}

FlagFrames ==
    Bulks({<<"P", "X">>, <<"p", "x">>, <<"N", "X">>, <<"1", "0">>, <<"7">>, <<"1", "x">>})
        \cup {NullBulkString}

ReplconfFrames ==
    Bulks({listening_port_text, capa_text, psync2_text, <<"e", "o", "f">>,
           <<"6", "3", "8", "0">>, <<"6", "5", "5", "3", "5">>, <<"6", "5", "5", "3", "6">>,
           <<"C", "A", "P", "A">>})
        \cup {NullBulkString}

RECURSIVE SeqsUpTo(_, _)
SeqsUpTo(S, n) ==
    IF n = 0 THEN {<<>>}
    ELSE SeqsUpTo(S, n - 1)
            \cup {Append(s, x) : s \in {t \in SeqsUpTo(S, n - 1) : Len(t) = n - 1}, x \in S}

SetFrames ==
    {List(<<BulkString(name), key, val>> \o flags) :
        name \in {SET_text, <<"s", "e", "t">>},
        key \in {BulkString(<<"k">>), NullBulkString},
        val \in {BulkString(<<"v">>), NullBulkString, List(<<BulkString(<<"v">>)>>)},
        flags \in SeqsUpTo(FlagFrames, MaxFlags)}

DispatchFrames ==
    BareFrames
        \cup {List(<<>>)}
        \cup {List(<<f>>) : f \in BareFrames \cup {List(<<>>), List(<<BulkString(PING_text)>>),
                                 List(<<BulkString(GET_text), BulkString(<<"k">>)>>)}}
        \cup {List(<<name>> \o args) : name \in NameFrames, args \in SeqsUpTo(ArgFrames, 2) \ {<<>>}}
        \cup {List(<<BulkString(REPLCONF_text)>> \o args) :
                 args \in SeqsUpTo(ReplconfFrames, 3) \ {<<>>}}
        \cup SetFrames

\* A frame that a reader has parsed is about to be given to RedisCommand::parse
InitCommand ==
    /\ role = "master"
    /\ replication_id = FirstId
    /\ config_port = DefaultPort
    /\ values = [k \in Keys |-> NoEntry]
    /\ InitConnections
    /\ InitReplicaLoop
    /\ written = <<>>
    /\ stream = <<>>
    /\ parsed = <<>>
    /\ InitDownstream
    /\ InitLinks
    /\ request \in DispatchFrames
    /\ dispatched = <<>>

\* handle_reading: RedisCommand::parse(&input)
ParseCommand ==
    /\ dispatched = <<>>
    /\ dispatched' = <<parse_command(request)>>
    /\ UNCHANGED <<request, codec, downstream, links, replication_id, role, pipeline, handshake>>

NextCommand == ParseCommand

SpecCommand == InitCommand /\ [][NextCommand]_vars

\* The two texts are equal when the case of their letters is ignored
SameWord(a, b) ==
    /\ Len(a) = Len(b)
    /\ \A i \in DOMAIN a : UpperChar(a[i]) = UpperChar(b[i])

\* A list of one element stands for that element
RECURSIVE Unwrapped(_)
Unwrapped(frame) ==
    IF frame.type = "List" /\ Len(frame.elems) = 1 THEN Unwrapped(frame.elems[1])
    ELSE frame

IsString(frame) == frame.type \in {"BulkString", "SimpleString"}

\* The request, unwrapped, is a list of two or more elements whose element 0 is
\* a string frame with the given name, in any case
Names(name) ==
    /\ Unwrapped(request).type = "List"
    /\ Len(Unwrapped(request).elems) >= 2
    /\ IsString(Unwrapped(request).elems[1])
    /\ SameWord(Unwrapped(request).elems[1].data, name)

\* The elements behind the name
Args == Tail(Unwrapped(request).elems)

CommandNames == {ECHO_text, GET_text, SET_text, INFO_text, REPLCONF_text, PSYNC_text}

\* C27. Command dispatch: a bare string frame is Ping iff its text is "ping" in
\* any case and is unrecognized otherwise; an empty list is unrecognized; a list
\* of one element is parsed as its element; a longer list is dispatched on
\* element 0, matched in any case against ECHO, GET, SET, INFO, REPLCONF and
\* PSYNC, and any other name or an element 0 that is no string is unrecognized.
C27_Dispatch ==
    dispatched # <<>> =>
        LET core == Unwrapped(request)
            result == dispatched[1]
        IN /\ IsString(core) =>
                 result = IF SameWord(core.data, PING_text) THEN PING ELSE NoCommand
           /\ core = List(<<>>) => result = NoCommand
           /\ (core.type = "List" /\ Len(core.elems) >= 2) =>
                 /\ ~IsString(core.elems[1]) => result = NoCommand
                 /\ (IsString(core.elems[1])
                       /\ \A name \in CommandNames : ~SameWord(core.elems[1].data, name)) =>
                          result = NoCommand
                 /\ \A name \in CommandNames :
                      Names(name) =>
                        \/ result = NoCommand
                        \/ result.name = CASE name = ECHO_text -> "ECHO"
                                           [] name = GET_text -> "GET"
                                           [] name = SET_text -> "SET"
                                           [] name = INFO_text -> "INFO"
                                           [] name = REPLCONF_text -> "REPLCONF"
                                           [] name = PSYNC_text -> "PSYNC"
                 /\ (Names(ECHO_text) /\ IsString(Args[1])) => result = ECHO(Args[1].data)
                 /\ (Names(GET_text) /\ IsString(Args[1])) => result = GET(Args[1].data)
                 /\ (Names(INFO_text) /\ IsString(Args[1])) => result = INFO(Args[1].data)
                 /\ (Names(SET_text) /\ Len(Args) = 2 /\ IsString(Args[1])) =>
                        result = SET(Args[1].data, Args[2], NoTtl)

\* C27 witness: the list of gEt and a key was dispatched to GET
C27_Witness ==
    /\ request = List(<<BulkString(<<"g", "E", "t">>), BulkString(<<"k">>)>>)
    /\ dispatched = <<GET(<<"k">>)>>

\* The frame is a string frame whose text is PX in any case
PxLike(frame) == IsString(frame) /\ SameWord(frame.data, px_text)

\* The elements behind the key and the value of a SET
Flags == SubSeq(Args, 3, Len(Args))

\* The decimal texts among the flags given to the parser, as numbers
Millis(text) == CASE text = <<"1", "0">> -> 10 [] text = <<"7">> -> 7

IsMillis(frame) == IsString(frame) /\ frame.data \in {<<"1", "0">>, <<"7">>}

\* C28. SET argument parsing: SET needs a key and a value; with string frames
\* in all positions, a flag PX n (PX in any case) behind them sets the TTL to n
\* milliseconds, whatever unknown flags stand before or behind it (an unknown
\* flag is skipped alone, not with the element behind it), and without a PX
\* flag the TTL is absent.
C28_SetArguments ==
    (dispatched # <<>> /\ Names(SET_text)) =>
        LET result == dispatched[1]
        IN /\ Len(Args) < 2 => result = NoCommand
           /\ (Len(Args) >= 2 /\ \A i \in DOMAIN Args : IsString(Args[i])) =>
                 /\ (\A i \in DOMAIN Flags : ~PxLike(Flags[i])) =>
                        result = SET(Args[1].data, Args[2], NoTtl)
                 /\ \A j \in DOMAIN Flags :
                      (/\ PxLike(Flags[j])
                       /\ \A i \in DOMAIN Flags \ {j} : ~PxLike(Flags[i])
                       /\ j < Len(Flags)
                       /\ IsMillis(Flags[j + 1])) =>
                          result = SET(Args[1].data, Args[2], Ttl(Millis(Flags[j + 1].data)))

\* C28 witness: set k v NX px 10 was parsed to a Set with a TTL of 10 ms
C28_Witness ==
    /\ request = List(<<BulkString(<<"s", "e", "t">>), BulkString(<<"k">>),
                        BulkString(<<"v">>), BulkString(<<"N", "X">>),
                        BulkString(<<"p", "x">>), BulkString(<<"1", "0">>)>>)
    /\ dispatched = <<SET(<<"k">>, BulkString(<<"v">>), Ttl(10))>>

\* The first PX flag of the request stands at j and has an element behind it
FirstPx(j) ==
    /\ j \in DOMAIN Flags
    /\ j < Len(Flags)
    /\ PxLike(Flags[j])
    /\ \A i \in 1..(j - 1) : ~PxLike(Flags[i])

\* C29. A SET frame with a frame that is no string in a consumed position (the
\* key, the value, a flag, the argument of PX), or with a PX argument that is
\* no decimal number, is unrecognized: no Set command is made of it.
C29_SetNonString ==
    (/\ dispatched # <<>>
     /\ Names(SET_text)
     /\ Len(Args) >= 2
     /\ \/ \E i \in DOMAIN Args : ~IsString(Args[i])
        \/ \E j \in DOMAIN Flags : FirstPx(j) /\ ~IsMillis(Flags[j + 1])) =>
        dispatched[1] = NoCommand

\* The texts among the REPLCONF arguments given to the parser that are a u16
PortOf(text) ==
    CASE text = <<"6", "3", "8", "0">> -> 6380 [] text = <<"6", "5", "5", "3", "5">> -> 65535

IsPort(frame) ==
    IsString(frame) /\ frame.data \in {<<"6", "3", "8", "0">>, <<"6", "5", "5", "3", "5">>}

\* C30. REPLCONF argument parsing: listening-port n is accepted iff n is the
\* text of a u16; capa psync2 is accepted and capa with any other token is
\* accepted too, as a no-op; fewer than two arguments, or another subcommand,
\* is unrecognized.
C30_Replconf ==
    (dispatched # <<>> /\ Names(REPLCONF_text)) =>
        LET result == dispatched[1]
        IN /\ Len(Args) < 2 => result = NoCommand
           /\ Len(Args) >= 2 =>
                 /\ (IsString(Args[1]) /\ Args[1].data = listening_port_text) =>
                        result = IF IsPort(Args[2]) THEN REPLCONF_Port(PortOf(Args[2].data))
                                 ELSE NoCommand
                 /\ (IsString(Args[1]) /\ Args[1].data = capa_text /\ IsString(Args[2])) =>
                        result = REPLCONF_Capabilities
                 /\ (~IsString(Args[1])
                       \/ Args[1].data \notin {listening_port_text, capa_text}) =>
                        result = NoCommand

-----------------------------------------------------------------------------
(* handle_reading on the bytes of a connection: RedisType::parse, then         *)
(* RedisCommand::parse, then the queue to the executor                         *)

\* Bytes of one input that is no command: frames of unknown commands and of
\* commands with missing arguments, a bare string that is not ping, lines with a
\* bad length, a simple string of a lone LF, a byte that is no tag
BadInputs ==
    {write_as_protocol(List(<<BulkString(<<"F", "O", "O">>), BulkString(<<"a">>)>>)),
     write_as_protocol(List(<<BulkString(SET_text), BulkString(<<"k">>)>>)),
     write_as_protocol(List(<<BulkString(GET_text)>>)),
     write_as_protocol(SimpleString(<<"h", "i">>)),
     write_as_protocol(List(<<>>)),
     <<"$", "x">> \o CRLF, <<"$", "-", "2">> \o CRLF, <<"*", "x">> \o CRLF,
     <<"+", "\n">>, <<"x">>}

\* Bytes of one command
GoodInputs ==
    {write_as_protocol(SimpleString(PING_text)),
     write_as_protocol(List(<<BulkString(<<"e", "c", "h", "o">>), BulkString(<<"h", "i">>)>>))}

\* A client has sent an input that is no command and a command behind it, or a
\* command in front of it as well
InitReading ==
    /\ role = "master"
    /\ replication_id = FirstId
    /\ config_port = DefaultPort
    /\ values = [k \in Keys |-> NoEntry]
    /\ InitConnections
    /\ InitReplicaLoop
    /\ InitDispatch
    /\ InitDownstream
    /\ InitLinks
    /\ written = <<>>
    /\ stream \in {bad \o good : bad \in BadInputs, good \in GoodInputs}
                    \cup {first \o bad \o good :
                            first \in GoodInputs, bad \in BadInputs, good \in GoodInputs}
    /\ parsed = <<>>

\* handle_reading: one turn of the loop on the bytes of the connection.  A frame
\* that is no command and an Err of the codec are sent on as errors; a panic of
\* the codec, or of the unwrap of tx.send once the receiver is gone, ends the task
ReadBytes(c) ==
    /\ reader[c] = "run"
    /\ stream # <<>>
    /\ Len(queue[c]) < ChannelCapacity
    /\ \E overflow_checks \in BOOLEAN :
         LET r == parse(stream, overflow_checks)
             n == nread[c] + 1
             input == IF r.kind = "err" THEN Error("Error parsing input type", n)
                      ELSE IF parse_command(r.frame) = NoCommand
                           THEN Error("Not a valid command", n)
                           ELSE Command(parse_command(r.frame), n)
         IN /\ stream' = r.rest
            /\ parsed' = Append(parsed, [kind |-> r.kind, frame |-> r.frame])
            /\ nread' = [nread EXCEPT ![c] = n]
            /\ IF r.kind = "panic" \/ exec[c].pc = "done"
               THEN /\ reader' = [reader EXCEPT ![c] = "panicked"]
                    /\ queue' = queue
               ELSE /\ reader' = reader
                    /\ queue' = [queue EXCEPT ![c] = Append(@, input)]
    /\ UNCHANGED <<written, handshake, dispatch, downstream, links, replication_id, role, values,
                   now, replicas, replicasLock, conn, from_master, peer, exec, wire>>

\* handle_reading: the client has sent all it had and has shut its sending side
\* down; parse returns Ok(None) and the loop ends
ReadBytesEof(c) ==
    /\ reader[c] = "run"
    /\ stream = <<>>
    /\ reader' = [reader EXCEPT ![c] = "done"]
    /\ parsed' = Append(parsed, [kind |-> "none", frame |-> NullBulkString])
    /\ UNCHANGED <<written, stream, handshake, dispatch, downstream, links, replication_id, role,
                   values, now, replicas, replicasLock, conn, from_master, peer, nread,
                   queue, exec, wire>>

NextReading ==
    \/ Accept("c1")
    \/ ReadBytes("c1")
    \/ ReadBytesEof("c1")
    \/ ErrorReply("c1")
    \/ Execute("c1")
    \/ Reply("c1")
    \/ ExecutorExit("c1")

SpecReading == InitReading /\ [][NextReading]_vars

\* The n-th result of the codec on the connection is no command
NoCommandAt(n) ==
    \/ parsed[n].kind \in {"err", "panic"}
    \/ parsed[n].kind = "some" /\ parse_command(parsed[n].frame) = NoCommand

\* The replies on c1 to its n-th input
RepliesTo(n) == {i \in DOMAIN wire["c1"] : wire["c1"][i].n = n}

\* C24. Every input the reader cannot turn into a command (an error of the
\* codec, a frame that is an unknown command or has invalid arguments) gets
\* exactly one SimpleError reply, and the connection stays served: the reader
\* task does not end on it, and once everything is read and processed every
\* command on the connection has been executed and answered.
C24_ErrorsAnswered ==
    /\ reader["c1"] # "panicked"
    /\ exec["c1"].pc = "done" =>
          /\ stream = <<>>
          /\ \A n \in DOMAIN parsed :
               parsed[n].kind # "none" =>
                  /\ Cardinality(RepliesTo(n)) = 1
                  /\ \A i \in RepliesTo(n) :
                       (wire["c1"][i].frame.type = "SimpleError") <=> NoCommandAt(n)

-----------------------------------------------------------------------------
(* The tasks of a connection under the scheduler of tokio: a task that can take *)
(* a step takes it                                                             *)

SpecDrop ==
    /\ Init
    /\ [][Next]_vars
    /\ \A c \in Conns :
         /\ WF_vars(ReadEof(c))
         /\ WF_vars(ErrorReply(c))
         /\ WF_vars(GateReply(c))
         /\ WF_vars(Execute(c))
         /\ WF_vars(Reply(c))
         /\ WF_vars(ReplicateLock(c))
         /\ WF_vars(ReplicateWrite(c))
         /\ WF_vars(ExecutorExit(c))

\* The executor of c returns in this step
Returns(c) == exec[c].pc # "done" /\ exec'[c].pc = "done"

\* Both tasks of c have ended
Terminated(c) == reader[c] \in {"done", "panicked"} /\ exec[c].pc = "done"

\* C25. When a connection is dropped its reader observes end-of-stream and
\* closes the queue; the executor executes every item that was enqueued before,
\* in order, and then exits: when it returns no item is left in the queue; and
\* both tasks of the connection eventually terminate.
C25_DropDrains ==
    /\ [][\A c \in Conns : Returns(c) => queue'[c] = <<>>]_vars
    /\ \A c \in Conns :
         (conn[c] = "open" /\ peer[c] = "closed") ~> Terminated(c)

-----------------------------------------------------------------------------
(* A primary and one replica of it.  The primary is the server of the pipeline *)
(* variables, with a client on c1 and the replica's link on c2; the replica is *)
(* followed through its handshake, its link and its store.                     *)

PairKeys == {<<"x">>}

\* The SET of the client of the primary
PairSet == SET(<<"x">>, BulkString(<<"y">>), NoTtl)

\* The primary has started and the replica has not connected yet; config_port is
\* the port of the replica, which its handshake announces
InitPair ==
    /\ role = "master"
    /\ replication_id = FirstId
    /\ config_port = 6380
    /\ values = [k \in PairKeys |-> NoEntry]
    /\ InitConnections
    /\ InitReplicaLoop
    /\ InitDispatch
    /\ written = <<>>
    /\ stream = <<>>
    /\ parsed = <<>>
    /\ replica_sent = 0
    /\ replica_ready = FALSE
    /\ replica_read = 0
    /\ replica_values = [k \in PairKeys |-> NoEntry]
    /\ replica_replies = <<>>
    /\ replica_taken = <<>>
    /\ InitLinks

\* handle_reading: one turn of the loop with the given input
ReadOne(c, input) ==
    /\ reader[c] = "run"
    /\ peer[c] = "open"
    /\ Len(queue[c]) < ChannelCapacity
    /\ nread' = [nread EXCEPT ![c] = @ + 1]
    /\ IF exec[c].pc = "done"
       THEN /\ reader' = [reader EXCEPT ![c] = "panicked"]
            /\ queue' = queue
       ELSE /\ reader' = reader
            /\ queue' = [queue EXCEPT ![c] = Append(@, input)]
    /\ UNCHANGED <<handshake, codec, dispatch, downstream, links, replication_id, role, values, now,
                   replicas, replicasLock, conn, from_master, peer, exec, wire>>

\* The replica, perform_handshake: send_command writes the next command of the
\* handshake once the reply to the one before has come
ReplicaSend ==
    /\ conn["c2"] = "open"
    /\ ~replica_ready
    /\ replica_sent < 4
    /\ Len(wire["c2"]) = replica_sent
    /\ replica_sent' = replica_sent + 1
    /\ UNCHANGED <<role, replication_id, pipeline, handshake, codec, dispatch, links,
                   replica_taken, replica_ready, replica_read, replica_values, replica_replies>>

\* The primary reads the next command of the handshake from the link
LinkRead ==
    /\ nread["c2"] < replica_sent
    /\ ReadOne("c2", Command(HandshakeCommand(nread["c2"] + 1), nread["c2"] + 1))

\* The replica, set_up_replica_loop: the reply to PSYNC has come, the handshake
\* returns the stream and handle_connection(stream, runtime, true) takes it
ReplicaTakesLink ==
    /\ ~replica_ready
    /\ replica_sent = 4
    /\ Len(wire["c2"]) = 4
    /\ wire["c2"][4].frame.type = "Multiple"
    /\ replica_ready' = TRUE
    /\ replica_read' = 4
    /\ UNCHANGED <<role, replication_id, pipeline, handshake, codec, dispatch, links,
                   replica_taken, replica_sent, replica_values, replica_replies>>

\* The client of the primary sends its SET once the replica is ready
ClientRead ==
    /\ replica_ready
    /\ nread["c1"] = 0
    /\ ReadOne("c1", Command(PairSet, 1))

\* The store of the replica after the frame was read from the link, dispatched
\* and executed
Applied(frame, overflow_checks) ==
    LET taken == parse_command(parse(write_as_protocol(frame), overflow_checks).frame)
    IN IF taken.name = "SET"
       THEN [replica_values EXCEPT ![taken.key] =
                ValueWithExpiry(taken.val, {now + ttl : ttl \in taken.ttl})]
       ELSE replica_values

\* The replica, pipeline of the link (from_master): the next frame the primary
\* wrote is parsed from its bytes and taken as a command; a SET passes the gate,
\* is stored and is not answered
ReplicaApply ==
    /\ replica_ready
    /\ replica_read < Len(wire["c2"])
    /\ replica_read' = replica_read + 1
    /\ \E overflow_checks \in BOOLEAN :
         replica_values' = Applied(wire["c2"][replica_read + 1].frame, overflow_checks)
    /\ UNCHANGED <<role, replication_id, pipeline, handshake, codec, dispatch, links,
                   replica_taken, replica_sent, replica_ready, replica_replies>>

\* The replica, pipeline of a client of its own: GET x is executed and answered
ReplicaGet ==
    /\ replica_ready
    /\ Len(replica_replies) < MaxInputs
    /\ replica_replies' =
          Append(replica_replies,
                 IF ~replica_values[<<"x">>].present \/ Expired(replica_values[<<"x">>])
                 THEN NullBulkString
                 ELSE replica_values[<<"x">>].value)
    /\ UNCHANGED <<role, replication_id, pipeline, handshake, codec, dispatch, links,
                   replica_taken, replica_sent, replica_ready, replica_read, replica_values>>

NextPair ==
    \/ \E c \in {"c1", "c2"} : Accept(c)
    \/ PeerClose("c1")
    \/ ReadEof("c1")
    \/ ClientRead
    \/ LinkRead
    \/ \E c \in {"c1", "c2"} : Execute(c)
    \/ \E c \in {"c1", "c2"} : Reply(c)
    \/ ReplicateLock("c1")
    \/ ReplicateWrite("c1")
    \/ ExecutorExit("c1")
    \/ ReplicaSend
    \/ ReplicaTakesLink
    \/ ReplicaApply
    \/ ReplicaGet

\* Weak fairness of ReplicaApply, written out with its enabling condition: the
\* replica is ready and a frame of the link is unread
ReplicaApplies ==
    <>[](replica_ready /\ replica_read < Len(wire["c2"])) => []<><<ReplicaApply>>_vars

\* Both servers run under the scheduler of tokio: a task that can take a step
\* takes it; the clients are free
SpecPair ==
    /\ InitPair
    /\ [][NextPair]_vars
    /\ \A c \in {"c1", "c2"} :
         /\ WF_vars(Execute(c))
         /\ WF_vars(Reply(c))
         /\ WF_vars(ReplicateLock(c))
         /\ WF_vars(ReplicateWrite(c))
    /\ WF_vars(LinkRead)
    /\ WF_vars(ReplicaSend)
    /\ WF_vars(ReplicaTakesLink)
    /\ ReplicaApplies

\* The SET of the client has been executed on the primary
SetOnPrimary == values[<<"x">>] = ValueWithExpiry(BulkString(<<"y">>), NoExpiry)

\* The SET has been applied to the store of the replica
SetOnReplica == replica_values[<<"x">>] = ValueWithExpiry(BulkString(<<"y">>), NoExpiry)

\* C26. Replica convergence: once the replica is ready, a SET x y executed on
\* the primary is eventually applied to the store of the replica through the
\* connection from the primary, and a GET x that a separate client sends to the
\* replica after that returns y.
C26_Convergence ==
    /\ (replica_ready /\ SetOnPrimary) ~> SetOnReplica
    /\ [][(SetOnReplica /\ replica_replies' # replica_replies) =>
             replica_replies'[Len(replica_replies')] = BulkString(<<"y">>)]_vars

-----------------------------------------------------------------------------
(* INFO and PSYNC sent by clients to a primary or to a replica *)

ServeCommands ==
    {INFO(replication_text),
     INFO(<<"R", "e", "p", "l", "i", "c", "a", "t", "i", "o", "n">>),
     INFO(<<"a", "l", "l">>),
     INFO(<<"A", "l", "l">>),
     PSYNC(<<"?">>, -1), PSYNC(<<"?">>, 0), PSYNC(<<"x">>, -1)}

ServeInputs(n) == {Command(command, n) : command \in ServeCommands}

ReadServe(c) == ReadInput(c, ServeInputs(nread[c] + 1))

\* RedisRuntime::new draws the replication id
InitServe ==
    /\ role \in {"master", "slave"}
    /\ replication_id \in ReplicationIds
    /\ config_port = DefaultPort
    /\ InitPipeline
    /\ InitReplicaLoop

NextServe ==
    \/ \E c \in Conns : Accept(c)
    \/ \E c \in Conns : ReadServe(c)
    \/ \E c \in Conns : Execute(c)
    \/ \E c \in Conns : Reply(c)

SpecServe == InitServe /\ [][NextServe]_vars

\* The executor of c takes a command of the given name in this step
TakesNamed(c, name) ==
    /\ Takes(c)
    /\ Head(queue[c]).kind = "Command"
    /\ Head(queue[c]).command.name = name

\* The INFO replication text of a server with the given role and id
InfoText(r, id) ==
    <<"r", "o", "l", "e", ":">>
        \o (IF r = "master" THEN <<"m", "a", "s", "t", "e", "r">>
                            ELSE <<"s", "l", "a", "v", "e">>)
        \o <<"\n", "m", "a", "s", "t", "e", "r", "_", "r", "e", "p", "l", "i", "d", ":">>
        \o id
        \o <<"\n", "m", "a", "s", "t", "e", "r", "_", "r", "e", "p", "l", "_",
             "o", "f", "f", "s", "e", "t", ":", "0">>

\* C17. On a primary, PSYNC ? -1 yields two frames in this order: the
\* SimpleString FULLRESYNC <id> 0, where <id> is the replication id the server
\* drew at startup and INFO reports, and the snapshot blob, whose serialization
\* ends with the last byte of the snapshot; any other PSYNC yields SimpleError
\* "Not capable of syncing with those options"; the id never changes.
C17_Psync ==
    [][/\ replication_id' = replication_id
       /\ \A c \in Conns :
            (is_master /\ TakesNamed(c, "PSYNC")) =>
               IF Head(queue[c]).command.master_id = <<"?">>
                    /\ Head(queue[c]).command.master_offset = -1
               THEN /\ exec'[c].result.type = "Multiple"
                    /\ Len(exec'[c].result.frames) = 2
                    /\ exec'[c].result.frames[1] =
                          SimpleString(<<"F", "U", "L", "L", "R", "E", "S", "Y", "N", "C", " ">>
                                       \o replication_id \o <<" ", "0">>)
                    /\ exec'[c].result.frames[2].type = "RDBFile"
                    /\ SubSeq(exec'[c].result.frames[2].file, 1, 5)
                          = <<"R", "E", "D", "I", "S">>
                    /\ write_as_protocol(exec'[c].result) =
                          <<"+", "F", "U", "L", "L", "R", "E", "S", "Y", "N", "C", " ">>
                          \o replication_id \o <<" ", "0", "\r", "\n">>
                          \o <<"$", "9", "\r", "\n">>
                          \o exec'[c].result.frames[2].file
                    /\ ExecuteResult(INFO(replication_text)) =
                          BulkString(InfoText("master",
                             split_whitespace(exec'[c].result.frames[1].data)[2]))
               ELSE exec'[c].result =
                       SimpleError("Not capable of syncing with those options")]_vars

\* C17 witness: a primary has written the compound reply to PSYNC ? -1 on a
\* connection and has refused a PSYNC ? 0 read after it
C17_Witness ==
    /\ is_master
    /\ \E c \in Conns :
          /\ Len(wire[c]) = 1
          /\ wire[c][1].frame.type = "Multiple"
          /\ exec[c].pc = "reply"
          /\ exec[c].cur = PSYNC(<<"?">>, 0)
          /\ exec[c].result.type = "SimpleError"

\* C18. INFO replication yields the BulkString role:<master|slave> LF
\* master_replid:<id> LF master_repl_offset:0 with the role and the id of the
\* server; INFO with another section yields SimpleError "Unknown arg for INFO:
\* <other>" with the section as the client sent it.
C18_Info ==
    [][\A c \in Conns :
         TakesNamed(c, "INFO") =>
            IF to_lowercase(Head(queue[c]).command.arg) = replication_text
            THEN exec'[c].result = BulkString(InfoText(role, replication_id))
            ELSE exec'[c].result =
                    SimpleError(<<"U", "n", "k", "n", "o", "w", "n", " ", "a", "r", "g", " ",
                                  "f", "o", "r", " ", "I", "N", "F", "O", ":", " ">>
                                \o Head(queue[c]).command.arg)]_vars

-----------------------------------------------------------------------------
(* A command on its way to a replica: RedisCommand::parse makes it of a frame, *)
(* replicate_command serializes it, and the reader of the replica parses the   *)
(* bytes and makes a command of the frame again                                *)

\* The frames of the commands that clients send
RoundFrames ==
    {BulkString(PING_text), SimpleString(<<"p", "i", "n", "g">>),
     List(<<BulkString(<<"P", "i", "n", "g">>)>>)}
        \cup {List(<<BulkString(name), arg>>) :
                name \in {ECHO_text, <<"g", "e", "t">>, INFO_text},
                arg \in {BulkString(<<"k">>), BulkString(<<>>), BulkString(CRLF),
                         SimpleString(<<"R", "e", "p", "l", "i", "c", "a", "t", "i", "o", "n">>)}}
        \cup {List(<<BulkString(SET_text), key, val>> \o flags) :
                key \in {BulkString(<<"k">>), SimpleString(<<>>)},
                val \in {BulkString(<<"v">>), BulkString(CRLF), SimpleString(<<"v">>),
                         NullBulkString, List(<<BulkString(<<"v">>), List(<<>>)>>),
                         SimpleError(UnknownCommandPrefix \o <<":">>)},
                flags \in {<<>>,
                           <<BulkString(<<"P", "X">>), BulkString(<<"1", "0", "0">>)>>,
                           <<BulkString(<<"p", "x">>), BulkString(<<"0">>)>>,
                           <<BulkString(<<"N", "X">>), BulkString(<<"P", "x">>),
                             BulkString(<<"+", "7">>)>>,
                           <<BulkString(<<"P", "X">>), BulkString(<<"1", "x">>)>>}}
        \cup {List(<<BulkString(REPLCONF_text), BulkString(listening_port_text),
                     BulkString(port)>>) :
                port \in {<<"0">>, <<"6", "3", "8", "0">>, <<"0", "6", "3", "8", "0">>,
                          <<"6", "5", "5", "3", "5">>}}
        \cup {List(<<BulkString(REPLCONF_text), BulkString(capa_text),
                     BulkString(psync2_text)>>)}
        \cup {List(<<BulkString(PSYNC_text), BulkString(id), BulkString(offset)>>) :
                id \in {<<"?">>, <<"i", "d", " ", "A">>},
                offset \in {<<"-", "1">>, <<"0">>, <<"+", "7">>, <<"-", "0">>}}

\* A client has sent a command to a primary: its frame is about to be given to
\* RedisCommand::parse, nothing is written to a replica yet
InitRound ==
    /\ role = "master"
    /\ replication_id = FirstId
    /\ config_port = DefaultPort
    /\ values = [k \in Keys |-> NoEntry]
    /\ InitConnections
    /\ InitReplicaLoop
    /\ written = <<>>
    /\ stream = <<>>
    /\ parsed = <<>>
    /\ InitDownstream
    /\ InitLinks
    /\ request \in RoundFrames
    /\ dispatched = <<>>

\* writer.write_all(&command.write_as_protocol()): the frame of the command and
\* its bytes
SerializeCommand ==
    /\ Len(dispatched) = 1
    /\ dispatched[1] # NoCommand
    /\ written = <<>>
    /\ written' = <<CommandFrame(dispatched[1])>>
    /\ stream' = write_as_protocol(CommandFrame(dispatched[1]))
    /\ UNCHANGED <<parsed, dispatch, downstream, links, replication_id, role, pipeline, handshake>>

\* handle_reading of the receiver: RedisCommand::parse(&input) of the frame that
\* RedisType::parse returned
ParseAgain ==
    /\ Len(dispatched) = 1
    /\ Len(parsed) = 1
    /\ parsed[1].kind = "some"
    /\ dispatched' = Append(dispatched, parse_command(parsed[1].frame))
    /\ UNCHANGED <<request, codec, downstream, links, replication_id, role, pipeline, handshake>>

NextRound ==
    \/ ParseCommand
    \/ SerializeCommand
    \/ ParseFrame
    \/ ParseAgain

SpecRound == InitRound /\ [][NextRound]_vars

\* The name of a command as the protocol spells it
NameText(command) ==
    CASE command.name = "PING" -> <<"P", "I", "N", "G">>
      [] command.name = "ECHO" -> <<"E", "C", "H", "O">>
      [] command.name = "SET" -> <<"S", "E", "T">>
      [] command.name = "GET" -> <<"G", "E", "T">>
      [] command.name = "INFO" -> <<"I", "N", "F", "O">>
      [] command.name = "REPLCONF" -> <<"R", "E", "P", "L", "C", "O", "N", "F">>
      [] command.name = "PSYNC" -> <<"P", "S", "Y", "N", "C">>

\* The text is the decimal notation of the number n
Decimal(text, n) == IsDigits(text) /\ NatValue(text) = n

\* The elements behind the name are the arguments of the command, in order
ArgumentsInOrder(command, elems) ==
    CASE command.name = "PING" -> Len(elems) = 1
      [] command.name = "ECHO" -> Len(elems) = 2 /\ elems[2].data = command.value
      [] command.name \in {"GET"} -> Len(elems) = 2 /\ elems[2].data = command.key
      [] command.name = "INFO" -> Len(elems) = 2 /\ elems[2].data = command.arg
      [] command.name = "SET" ->
            /\ Len(elems) = IF command.ttl = NoTtl THEN 3 ELSE 5
            /\ elems[2].data = command.key
            /\ elems[3] = command.val
            /\ \A t \in command.ttl :
                  /\ elems[4].data = <<"P", "X">>
                  /\ Decimal(elems[5].data, t)
      [] command.name = "REPLCONF" ->
            /\ Len(elems) = 3
            /\ IF command.arg = "Port"
               THEN elems[2].data = listening_port_text /\ Decimal(elems[3].data, command.port)
               ELSE elems[2].data = capa_text /\ elems[3].data = psync2_text
      [] command.name = "PSYNC" ->
            /\ Len(elems) = 3
            /\ elems[2].data = command.master_id
            /\ ParseI64(elems[3].data).ok
            /\ ParseI64(elems[3].data).value = command.master_offset

\* C31. The frame a command is serialized as is a List whose elements are all
\* BulkStrings: element 0 is the name of the command in upper case, the
\* arguments follow in order; PING is the list of one element, and a SET with a
\* TTL ends with the element PX and the TTL in decimal milliseconds.
C31_SerializeAsFrame ==
    written # <<>> =>
        /\ written[1].type = "List"
        /\ \A i \in DOMAIN written[1].elems : written[1].elems[i].type = "BulkString"
        /\ written[1].elems[1].data = NameText(dispatched[1])
        /\ ArgumentsInOrder(dispatched[1], written[1].elems)

\* C38. Command round trip: the command the receiver makes of the frame it
\* parses from the bytes of a serialized command is the command that was
\* serialized, with the same key, value frame and TTL, port, id and offset.
C38_CommandRoundTrip ==
    Len(dispatched) = 2 => dispatched[2] = dispatched[1]

-----------------------------------------------------------------------------
(* The locks of the runtime *)

\* The executor of c is at the write_all of replicate_command to a link
FanoutWrites(c) == exec[c].pc = "replicating" /\ exec'[c] # exec[c]

\* C32. The mutex of the replica set is not held while bytes are written to a
\* socket: the fanout holds it to enumerate the links and has released it when
\* it writes to a link, so that other connections can register a replica or fan
\* out while a write to a link is pending.
C32_SetLockNotHeldOnWrite ==
    [][\A c \in Conns : FanoutWrites(c) => replicasLock = NoConn]_vars

-----------------------------------------------------------------------------
(* The GET arm between its check under the read lock and its removal under the *)
(* write lock                                                                  *)

\* The executor of c removes the entry of the key whose expiry its GET saw
RemovesExpired(c) == exec[c].pc = "expired" /\ exec'[c] # exec[c]

\* C34. A GET that finds its key expired removes only that expired entry: an
\* entry that a SET of another connection has put under the key since the
\* check, and that has not expired, is still in the store after the removal.
C34_RemovesOnlyExpired ==
    [][\A c \in Conns :
         (RemovesExpired(c) /\ values[exec[c].cur.key].present
                            /\ ~Expired(values[exec[c].cur.key])) =>
            values'[exec[c].cur.key] = values[exec[c].cur.key]]_vars

-----------------------------------------------------------------------------
(* The store under every command: a server of either role, one client, two keys *)

FrameKeys == {"k1", "k2"}

FrameCommands ==
    {PING, ECHO(<<"a">>), INFO(replication_text),
     REPLCONF_Port(6380), REPLCONF_Capabilities, PSYNC(<<"?">>, -1),
     GET("k1"), GET("k2"),
     SET("k1", BulkString("v1"), Ttl(1)), SET("k2", BulkString("v2"), NoTtl)}

FrameInputs(n) ==
    {Command(command, n) : command \in FrameCommands}
        \cup {Error("Error parsing input type", n)}

ReadFrameInput(c) == ReadInput(c, FrameInputs(nread[c] + 1))

InitFrame ==
    /\ role \in {"master", "slave"}
    /\ config_port = DefaultPort
    /\ replication_id = FirstId
    /\ values = [k \in FrameKeys |-> NoEntry]
    /\ InitConnections
    /\ written = <<>>
    /\ stream = <<>>
    /\ parsed = <<>>
    /\ InitDispatch
    /\ InitDownstream
    /\ InitLinks
    /\ InitReplicaLoop

NextFrame ==
    \/ Accept("c1")
    \/ ReadFrameInput("c1")
    \/ ErrorReply("c1")
    \/ GateReply("c1")
    \/ Execute("c1")
    \/ RemoveExpired("c1")
    \/ Reply("c1")
    \/ ReplicateLock("c1")
    \/ ReplicateWrite("c1")
    \/ Tick

SpecFrame == InitFrame /\ [][NextFrame]_vars

\* Every key but k has the entry it had
OnlyChanges(k) == \A j \in FrameKeys \ {k} : values'[j] = values[j]

\* The executor of c takes a SET of key k that the gate of a replica lets through
AppliesSetOf(c, k) == TakesSetOf(c, k) /\ (is_master \/ from_master[c])

\* C40. Store frame: the mapping of the store changes only in the step that
\* applies a SET, and then only under the key of the SET, and in the step that
\* removes the entry of a GET that found its key expired, and then only under
\* the queried key; PING, ECHO, INFO, REPLCONF, PSYNC, a write that the gate of
\* a replica rejects and an input that failed to parse leave it as it was, and
\* so does a GET of a key that is absent or not expired, which removes nothing.
C40_StoreFrame ==
    [][/\ values' # values =>
            \E c \in Conns : \E k \in FrameKeys :
               /\ OnlyChanges(k)
               /\ \/ AppliesSetOf(c, k)
                  \/ RemovesExpired(c) /\ exec[c].cur.key = k /\ values'[k] = NoEntry
       /\ \A c \in Conns : \A k \in FrameKeys :
            (TakesGetOf(c, k) /\ (~values[k].present \/ ~Expired(values[k]))) =>
               exec'[c].pc = "reply"]_vars

\* C40 witness: the SETs of both keys have been applied, each leaving the entry
\* of the other key, the entry of k1 has expired and a GET has removed it, and
\* the entry of k2 is still there
C40_Witness ==
    /\ ~values["k1"].present
    /\ values["k2"] = ValueWithExpiry(BulkString("v2"), NoExpiry)
    /\ exec["c1"].pc = "reply"
    /\ exec["c1"].cur = GET("k1")
    /\ exec["c1"].n = 3
    /\ now = 2

-----------------------------------------------------------------------------
(* The replica's reads of its link: every step of the handshake reads through a *)
(* BufReader of its own, the pipeline reads through the BufReader of            *)
(* handle_reading                                                              *)

\* The frames of the entries written on a connection, one after the other; the
\* reply to PSYNC is two frames
RECURSIVE FramesOf(_)
FramesOf(entries) ==
    IF entries = <<>> THEN <<>>
    ELSE (IF Head(entries).frame.type = "Multiple" THEN Head(entries).frame.frames
          ELSE <<Head(entries).frame>>) \o FramesOf(Tail(entries))

LinkFrames == FramesOf(wire["c2"])

\* The frames the steps of the handshake made so far are to read: one reply for
\* each command, and the snapshot behind the reply to PSYNC
ReplicaAwaits == IF replica_sent = 4 THEN 5 ELSE replica_sent

\* expect_string, handle_psync and handle_rdb_file take the frames the handshake
\* has read: four replies that are strings, then the snapshot
HandshakeOnTrack ==
    \A i \in DOMAIN replica_taken :
       i <= 5 => replica_taken[i].type = (IF i = 5 THEN "RDBFile" ELSE "SimpleString")

\* perform_handshake: send_command writes the next command once the reply to the
\* one before has been taken
ReplicaSendNext ==
    /\ conn["c2"] = "open"
    /\ ~replica_ready
    /\ replica_sent < 4
    /\ Len(replica_taken) = replica_sent
    /\ HandshakeOnTrack
    /\ replica_sent' = replica_sent + 1
    /\ UNCHANGED <<role, replication_id, pipeline, handshake, codec, dispatch, links,
                   replica_ready, replica_read, replica_values, replica_replies,
                   replica_taken>>

\* send_command and accept_rdb_file: a BufReader is made over the stream, its
\* read takes the k frames that have arrived, parse takes the first of them, and
\* the BufReader is dropped with the rest
ReplicaReceive ==
    /\ ~replica_ready
    /\ Len(replica_taken) < ReplicaAwaits
    /\ HandshakeOnTrack
    /\ replica_read < Len(LinkFrames)
    /\ \E k \in 1..(Len(LinkFrames) - replica_read) :
         /\ replica_read' = replica_read + k
         /\ replica_taken' = Append(replica_taken, LinkFrames[replica_read + 1])
    /\ UNCHANGED <<role, replication_id, pipeline, handshake, codec, dispatch, links,
                   replica_sent, replica_ready, replica_values, replica_replies>>

\* perform_handshake returns the stream, set_up_replica_loop hands it to
\* handle_connection(stream, runtime, true)
ReplicaTakesStream ==
    /\ ~replica_ready
    /\ Len(replica_taken) = 5
    /\ HandshakeOnTrack
    /\ replica_ready' = TRUE
    /\ UNCHANGED <<role, replication_id, pipeline, handshake, codec, dispatch, links,
                   replica_sent, replica_read, replica_values, replica_replies,
                   replica_taken>>

\* The pipeline of the link: handle_reading parses the next frame through its
\* BufReader, the executor applies the command
ReplicaPipeline ==
    /\ replica_ready
    /\ replica_read < Len(LinkFrames)
    /\ replica_read' = replica_read + 1
    /\ replica_taken' = Append(replica_taken, LinkFrames[replica_read + 1])
    /\ \E overflow_checks \in BOOLEAN :
         replica_values' = Applied(LinkFrames[replica_read + 1], overflow_checks)
    /\ UNCHANGED <<role, replication_id, pipeline, handshake, codec, dispatch, links,
                   replica_sent, replica_ready, replica_replies>>

\* The primary has written the reply to PSYNC, the FULLRESYNC line and the
\* snapshot, on the link
SyncWritten == \E i \in DOMAIN wire["c2"] : wire["c2"][i].frame.type = "Multiple"

\* The client of the primary sends its SET, and the same SET once more, when
\* the snapshot is written
ClientReadAfterSync ==
    /\ SyncWritten
    /\ nread["c1"] < 2
    /\ ReadOne("c1", Command(PairSet, nread["c1"] + 1))

NextHandover ==
    \/ \E c \in {"c1", "c2"} : Accept(c)
    \/ ClientReadAfterSync
    \/ LinkRead
    \/ \E c \in {"c1", "c2"} : Execute(c)
    \/ \E c \in {"c1", "c2"} : Reply(c)
    \/ ReplicateLock("c1")
    \/ ReplicateWrite("c1")
    \/ ReplicaSendNext
    \/ ReplicaReceive
    \/ ReplicaTakesStream
    \/ ReplicaPipeline
    \/ ReplicaGet

SpecHandover == InitPair /\ [][NextHandover]_vars

\* C39. No byte the primary sends on the link is lost by the replica: every frame
\* the replica has read off the connection has been parsed, by a step of the
\* handshake or by the pipeline of the link; none is dropped with a read buffer.
C39_NoByteLost == replica_read = Len(replica_taken)

-----------------------------------------------------------------------------
(* Two clients of a primary write the same key while a third connection is a *)
(* replica's link                                                            *)

\* The clients and the values they set
OrderValue(c) == IF c = "c1" THEN BulkString("v1") ELSE BulkString("v2")

\* What each connection sends: the link announces its port, each client sets k1
OrderCommand(c) ==
    IF c = PrimaryLink THEN REPLCONF_Port(6380) ELSE SET("k1", OrderValue(c), NoTtl)

\* main: the listener of a primary accepts its third connection
AcceptThird ==
    /\ is_master
    /\ conn["c2"] = "open"
    /\ handle_connection(PrimaryLink, FALSE)

\* handle_reading: the connection's one command is read
ReadOrder(c) ==
    /\ nread[c] = 0
    /\ ReadOne(c, Command(OrderCommand(c), 1))

InitOrder ==
    /\ role = "master"
    /\ config_port = DefaultPort
    /\ replication_id = FirstId
    /\ InitPipeline
    /\ InitReplicaLoop

NextOrder ==
    \/ \E c \in Conns : Accept(c)
    \/ AcceptThird
    \/ \E c \in Conns : ReadOrder(c)
    \/ \E c \in Conns : Execute(c)
    \/ \E c \in Conns : Reply(c)
    \/ \E c \in Conns : ReplicateLock(c)
    \/ \E c \in Conns : ReplicateWrite(c)

SpecOrder == InitOrder /\ [][NextOrder]_vars

\* The replicated commands written to the connection l, in order
ReplicatedOn(l) == SelectSeq(wire[l], LAMBDA entry : entry.kind = "replicated")

\* Every executor is between two commands and no command waits in a queue
Quiet == \A c \in Conns : exec[c].pc = "recv" /\ queue[c] = <<>>

\* C35. Two writes of different client connections reach every replica link in
\* the order in which the primary applied them to its store: once both SETs of
\* k1 are on a link and the primary is quiet, the later one on the link carries
\* the value the store of the primary holds, so a replica applying the stream
\* ends with that value.
C35_FanoutInStoreOrder ==
    \A i \in DOMAIN replicas :
        LET fanned == ReplicatedOn(replicas[i].connection)
        IN (Quiet /\ Len(fanned) = 2) =>
              fanned[2].frame = CommandFrame(SET("k1", values["k1"].value, NoTtl))

-----------------------------------------------------------------------------
(* A client writes to the primary while the replica is in its handshake *)

\* The client of the primary sends its SET at any time
ClientReadsEarly ==
    /\ nread["c1"] = 0
    /\ ReadOne("c1", Command(PairSet, 1))

NextSync ==
    \/ \E c \in {"c1", "c2"} : Accept(c)
    \/ ClientReadsEarly
    \/ LinkRead
    \/ \E c \in {"c1", "c2"} : Execute(c)
    \/ \E c \in {"c1", "c2"} : Reply(c)
    \/ ReplicateLock("c1")
    \/ ReplicateWrite("c1")
    \/ ReplicaSendNext
    \/ ReplicaReceive
    \/ ReplicaTakesStream
    \/ ReplicaPipeline
    \/ ReplicaGet

SpecSync == InitPair /\ [][NextSync]_vars

\* C36. No fanned-out write is written to the link before the FULLRESYNC line
\* and the snapshot: every replicated command on the link has the reply to PSYNC
\* before it, and none of the four frames the handshake takes as replies to its
\* commands is a replicated command.
C36_WritesAfterSync ==
    /\ \A i \in DOMAIN wire["c2"] :
          wire["c2"][i].kind = "replicated" =>
             \E j \in 1..(i - 1) : wire["c2"][j].frame.type = "Multiple"
    /\ \A i \in DOMAIN replica_taken :
          i <= 4 => replica_taken[i] # CommandFrame(PairSet)

-----------------------------------------------------------------------------
(* The mutexes of a primary: the write-half of a connection is written by its *)
(* own executor and by the fanout of the others.  write_all puts a frame on   *)
(* the socket in parts, here the head of the frame and the rest of it.        *)

\* What each connection sends: c1 is a client that writes, c2 announces itself
\* as a replica, reads the key and announces itself once more
LinkScript(c) ==
    IF c = "c1"
    THEN <<SET("k1", BulkString("v1"), NoTtl), SET("k1", BulkString("v2"), NoTtl)>>
    ELSE <<REPLCONF_Port(6380), GET("k1"), REPLCONF_Port(6380)>>

\* handle_reading: the next command of the connection is read
ReadLink(c) ==
    /\ c \in {"c1", "c2"}
    /\ nread[c] < Len(LinkScript(c))
    /\ ReadOne(c, Command(LinkScript(c)[nread[c] + 1], nread[c] + 1))

\* A part of a frame on the socket
Part(part, entry) == [part |-> part, entry |-> entry]

\* Mutant of the lock: the mutex of the write-half never makes a task wait
LinkFreeAlways(l) == TRUE

\* lock().await on the write-half of l returns once no task holds the guard
LinkFree(l) == linkLock[l] = NoConn

\* Mutant of the fanout: the guard of the replica set outlives the loop
GuardKept(holder) == holder

\* The guard of the replica set is a temporary of the for expression and is
\* dropped when the loop ends
GuardDropped(holder) == NoConn

\* handle_processing_writing, the reply: write_half.lock().await
ReplyLock(c) ==
    /\ exec[c].pc = "reply"
    /\ LinkFree(c)
    /\ linkLock' = [linkLock EXCEPT ![c] = c]
    /\ exec' = [exec EXCEPT ![c].pc = "reply_locked"]
    /\ UNCHANGED <<handshake, codec, dispatch, downstream, replication_id, role, values, now,
                   replicas, replicasLock, conn, from_master, peer, reader, nread,
                   queue, wire, sent>>

\* write_all of the reply: the head of the frame is on the socket
ReplyWriteHead(c) ==
    /\ exec[c].pc = "reply_locked"
    /\ sent' = [sent EXCEPT ![c] =
                  Append(@, Part("head", ReplyEntry(exec[c].n, exec[c].result)))]
    /\ exec' = [exec EXCEPT ![c].pc = "reply_half"]
    /\ UNCHANGED <<handshake, codec, dispatch, downstream, replication_id, role, values, now,
                   replicas, replicasLock, conn, from_master, peer, reader, nread,
                   queue, wire, linkLock>>

\* write_all of the reply returns: the frame is complete and the guard, a
\* temporary of the statement, is dropped
ReplyWriteTail(c) ==
    /\ exec[c].pc = "reply_half"
    /\ sent' = [sent EXCEPT ![c] =
                  Append(@, Part("tail", ReplyEntry(exec[c].n, exec[c].result)))]
    /\ wire' = [wire EXCEPT ![c] = Append(@, ReplyEntry(exec[c].n, exec[c].result))]
    /\ linkLock' = [linkLock EXCEPT ![c] = NoConn]
    /\ exec' = [exec EXCEPT ![c] = AfterReply(exec[c])]
    /\ UNCHANGED <<handshake, codec, dispatch, downstream, replication_id, role, values, now,
                   replicas, replicasLock, conn, from_master, peer, reader, nread,
                   queue>>

\* The link the fanout of c is at
FanoutLink(c) == replicas[exec[c].idx].connection

\* replicate_command, one turn of the loop: replica.connection.lock().await
LinkLock(c) ==
    /\ exec[c].pc = "replicating"
    /\ LinkFree(FanoutLink(c))
    /\ linkLock' = [linkLock EXCEPT ![FanoutLink(c)] = c]
    /\ exec' = [exec EXCEPT ![c].pc = "link_locked"]
    /\ UNCHANGED <<handshake, codec, dispatch, downstream, replication_id, role, values, now,
                   replicas, replicasLock, conn, from_master, peer, reader, nread,
                   queue, wire, sent>>

\* writer.write_all of the command: the head of the frame is on the socket
LinkWriteHead(c) ==
    /\ exec[c].pc = "link_locked"
    /\ sent' = [sent EXCEPT ![FanoutLink(c)] =
                  Append(@, Part("head", ReplicatedEntry(CommandFrame(exec[c].cur))))]
    /\ exec' = [exec EXCEPT ![c].pc = "link_half"]
    /\ UNCHANGED <<handshake, codec, dispatch, downstream, replication_id, role, values, now,
                   replicas, replicasLock, conn, from_master, peer, reader, nread,
                   queue, wire, linkLock>>

\* writer.write_all returns and the turn ends: the frame is complete, writer is
\* dropped, and after the last link the guard of the replica set is dropped
LinkWriteTail(c) ==
    /\ exec[c].pc = "link_half"
    /\ sent' = [sent EXCEPT ![FanoutLink(c)] =
                  Append(@, Part("tail", ReplicatedEntry(CommandFrame(exec[c].cur))))]
    /\ wire' = [wire EXCEPT ![FanoutLink(c)] =
                  Append(@, ReplicatedEntry(CommandFrame(exec[c].cur)))]
    /\ linkLock' = [linkLock EXCEPT ![FanoutLink(c)] = NoConn]
    /\ IF exec[c].idx < Len(replicas)
       THEN /\ exec' = [exec EXCEPT ![c].pc = "replicating", ![c].idx = @ + 1]
            /\ replicasLock' = replicasLock
       ELSE /\ exec' = [exec EXCEPT ![c] = Idle]
            /\ replicasLock' = GuardDropped(c)
    /\ UNCHANGED <<handshake, codec, dispatch, downstream, replication_id, role, values, now,
                   replicas, conn, from_master, peer, reader, nread, queue>>

NextLink ==
    \/ \E c \in {"c1", "c2"} : Accept(c)
    \/ \E c \in {"c1", "c2"} : ReadLink(c)
    \/ \E c \in {"c1", "c2"} : Execute(c)
    \/ \E c \in {"c1", "c2"} : ReplyLock(c)
    \/ \E c \in {"c1", "c2"} : ReplyWriteHead(c)
    \/ \E c \in {"c1", "c2"} : ReplyWriteTail(c)
    \/ \E c \in {"c1", "c2"} : ReplicateLock(c)
    \/ \E c \in {"c1", "c2"} : LinkLock(c)
    \/ \E c \in {"c1", "c2"} : LinkWriteHead(c)
    \/ \E c \in {"c1", "c2"} : LinkWriteTail(c)

SpecLink == InitOrder /\ [][NextLink]_vars

\* The executors run under the scheduler of tokio: a task that can take a step
\* takes it; the clients are free
SpecLinkLive ==
    /\ SpecLink
    /\ \A c \in {"c1", "c2"} :
         /\ WF_vars(Execute(c))
         /\ WF_vars(ReplyLock(c))
         /\ WF_vars(ReplyWriteHead(c))
         /\ WF_vars(ReplyWriteTail(c))
         /\ WF_vars(ReplicateLock(c))
         /\ WF_vars(LinkLock(c))
         /\ WF_vars(LinkWriteHead(c))
         /\ WF_vars(LinkWriteTail(c))

\* The parts on the socket of l pair up: each head is followed by the rest of
\* the same frame
FramesWhole(l) ==
    \A i \in DOMAIN sent[l] :
       IF i % 2 = 1
       THEN sent[l][i].part = "head"
       ELSE sent[l][i] = Part("tail", sent[l][i - 1].entry)

\* A part is put on the socket of l in this step
WritesPart(l) == sent'[l] # sent[l]

\* C33. On a connection written by its own executor and by the fanout of other
\* connections every frame is written as one unit under the mutex of the link:
\* the parts of two frames never interleave on the socket, a frame that is half
\* written has its writer holding the mutex, parts are written only by the
\* holder, and the step that completes a frame releases the mutex.
C33_FramesUnderLinkMutex ==
    /\ [](\A l \in Conns :
            /\ FramesWhole(l)
            /\ Len(sent[l]) % 2 = 1 => linkLock[l] # NoConn)
    /\ [][\A l \in Conns :
            WritesPart(l) =>
               /\ linkLock[l] # NoConn
               /\ sent'[l][Len(sent'[l])].part = "tail" => linkLock'[l] = NoConn]_vars

\* C33 witness: c2 is a link and has had a reply; the fanout of c1 holds the
\* mutex of c2 with its frame half written while the executor of c2 waits for
\* the mutex to write a reply of its own
C33_Witness ==
    /\ linkLock["c2"] = "c1"
    /\ exec["c1"].pc = "link_half"
    /\ exec["c2"].pc = "reply"
    /\ \E i \in DOMAIN sent["c2"] : sent["c2"][i].entry.kind = "reply"

\* The executor of c has a command in hand or in its queue
Busy(c) == exec[c].pc # "recv" \/ queue[c] # <<>>

\* C37. No interleaving of the executors deadlocks on the store lock, the mutex
\* of the replica set and the mutexes of the links: while sockets accept writes,
\* an executor with a command in its queue or in hand eventually finishes it and
\* waits for the next one, a REPLCONF that registers a link during a fanout
\* included.
C37_NoDeadlock ==
    \A c \in {"c1", "c2"} : Busy(c) ~> ~Busy(c)

\* C37 witness: the fanout of c1 holds the mutex of the replica set and the
\* mutex of the link c2, and the executor of c2 has a REPLCONF listening-port to
\* execute, which waits for the mutex of the replica set
C37_Witness ==
    /\ replicasLock = "c1"
    /\ linkLock["c2"] = "c1"
    /\ exec["c2"].pc = "recv"
    /\ queue["c2"] # <<>>
    /\ Head(queue["c2"]).command = REPLCONF_Port(6380)

====
